---- MODULE Spec2Model ----
(***************************************************************************)
(* A model of agents_with_intent: the skill sandbox, the flat graph        *)
(* (load_config -> discover_skills -> skill_selection -> generate <->      *)
(* tools) and the supervisor graph (supervisor -> worker <-> worker tools).*)
(* Python values are modelled as follows: a path is a record               *)
(* [abs, parts]; a list is a sequence; a dict keyed by skill name is a     *)
(* function over the names it holds; None (and a missing dict key) is the  *)
(* string "None".                                                          *)
(***************************************************************************)
EXTENDS Integers, Sequences, FiniteSets, TLC

VARIABLES
    spec_kind,            \* which entry point of the program a behaviour exercises
    inp,                  \* the arguments drawn for a directly called function
    res,                  \* what that call returned or raised
    \* ---- AgentState (graph/state.py), the checkpointed state of the thread
    messages,
    skills_metadata,
    active_skills,
    loaded_skills,
    skill_loaders,
    agent_config,
    next,
    previous_specialist,
    supervisor_reasoning,
    \* ---- the graph run of the current turn
    catalog,              \* what discover_skills finds; the graph's worker nodes
    pc,                   \* the node about to run
    steps,                \* supersteps taken in this turn
    outcome,              \* "idle", "running", "end" or how graph.invoke failed
    calls,                \* the model invocations of the turn, in order
    files,                \* regular files on disk
    keep_history,         \* FALSE: only the last message is kept (step-budget runs)
    \* ---- skill discovery (skills/discovery.py, skills/registry.py)
    descriptors,          \* the SKILL.md files on disk: path -> header and stat
    cache,                \* the skills cache file
    registry,             \* a SkillRegistry: self._skills and the discover() call under way
    cache_dir             \* the cache directory while _save_cache calls run: names, files, writers

unitVars == <<spec_kind, inp, res>>

stateVars == <<messages, skills_metadata, active_skills, loaded_skills, skill_loaders,
               agent_config, next, previous_specialist, supervisor_reasoning>>

runVars == <<catalog, pc, steps, outcome, calls, files, keep_history>>

diskVars == <<descriptors, cache, registry, cache_dir>>

vars == <<unitVars, stateVars, runVars, diskVars>>

\* No descriptor scan takes part in the behaviour.
NoDiscovery == descriptors = <<>> /\ cache = <<>> /\ registry = <<>> /\ cache_dir = <<>>

None == "None"

(***************************************************************************)
(* Bounds of the model.                                                    *)
(***************************************************************************)
MaxPathLen == 3           \* components in a requested path

MaxTextLen == 2           \* tokens in a free-text supervisor response

MaxCalls == 2             \* tool calls carried by one AI message

MaxSteps == 7             \* supersteps explored per thread when the history is kept

MaxToolCalls == 2         \* tool calls explored per thread (history kept)

MaxTurns == 2             \* user turns explored per thread (history kept)

MaxEdits == 1             \* descriptor edits explored between discovery calls

MaxHistory == 2           \* messages in a state handed to a worker's router

(***************************************************************************)
(* Generic helpers.                                                        *)
(***************************************************************************)
Front(s) == SubSeq(s, 1, Len(s) - 1)

Last(s) == s[Len(s)]

IsPrefix(p, s) == Len(p) <= Len(s) /\ SubSeq(s, 1, Len(p)) = p

SeqsUpTo(S, n) == UNION {[1..k -> S] : k \in 0..n}

(***************************************************************************)
(* The file system the program runs on. Absolute locations are sequences   *)
(* of components below "/".                                                *)
(*   /etc/passwd                                                           *)
(*   /secret.txt                                                           *)
(*   /alias              -> /skills/skill-a   (symlink to a directory)     *)
(*   /data/report.txt                         (the configured file root)   *)
(*   /skills/skill-a/SKILL.md, template.txt, sub/deep.txt,                 *)
(*                   out -> /secret.txt       (symlink leaving the skill)  *)
(*   /skills/skill-b/SKILL.md, template.txt                                *)
(*   /skills/end/SKILL.md                                                  *)
(***************************************************************************)
DirSkillA == <<"skills", "skill-a">>

DirSkillB == <<"skills", "skill-b">>

DirSkillEnd == <<"skills", "end">>

Dirs ==
    { <<>>, <<"etc">>, <<"data">>, <<"skills">>, DirSkillA, DirSkillB, DirSkillEnd,
      DirSkillA \o <<"sub">> }

StaticFiles ==
    { <<"etc", "passwd">>, <<"secret.txt">>, <<"data", "report.txt">>,
      DirSkillA \o <<"SKILL.md">>, DirSkillA \o <<"template.txt">>,
      DirSkillA \o <<"sub", "deep.txt">>, DirSkillA \o <<"logo.png">>,
      DirSkillB \o <<"SKILL.md">>, DirSkillB \o <<"template.txt">>,
      DirSkillEnd \o <<"SKILL.md">> }

SymlinkAt == { <<"alias">>, DirSkillA \o <<"out">> }

SymlinkTarget(p) == IF p = <<"alias">> THEN DirSkillA ELSE <<"secret.txt">>

\* str(path) of an absolute location.
RECURSIVE PathStr(_)
PathStr(p) == IF p = <<>> THEN "" ELSE "/" \o Head(p) \o PathStr(Tail(p))

\* Regular files whose bytes are not UTF-8 text: read_text(encoding="utf-8")
\* raises UnicodeDecodeError on them.
Undecodable == { DirSkillA \o <<"logo.png">> }

\* read_text(): the text of a regular file is identified by where it lives.
ReadText(p) == "text of " \o PathStr(p)

Path(abs, parts) == [abs |-> abs, parts |-> parts]

\* pathlib: root / Path(p) is p itself when p is absolute.
JoinPath(root, p) == IF p.abs THEN p.parts ELSE root \o p.parts

\* Path.resolve(): ".." pops the canonical prefix built so far, "." is dropped,
\* a symlink is replaced by its (absolute) target and resolution goes on.
RECURSIVE ResolveFrom(_, _)
ResolveFrom(done, rest) ==
    IF rest = <<>> THEN done
    ELSE LET c == Head(rest) IN
         IF c = ".." THEN ResolveFrom(IF done = <<>> THEN <<>> ELSE Front(done), Tail(rest))
         ELSE IF c = "." THEN ResolveFrom(done, Tail(rest))
         ELSE IF (done \o <<c>>) \in SymlinkAt
              THEN ResolveFrom(<<>>, SymlinkTarget(done \o <<c>>) \o Tail(rest))
              ELSE ResolveFrom(done \o <<c>>, Tail(rest))

Resolve(parts) == ResolveFrom(<<>>, parts)

\* PurePath.relative_to(root) succeeds iff root's components are a prefix.
RelativeTo(candidate, root) == IsPrefix(root, candidate)

(***************************************************************************)
(* SkillRegistry.read_skill_resource over a discovered registry.           *)
(***************************************************************************)
\* Skill.path as recorded by SkillRegistry.discover (skill_file.parent); the
\* registry may have been given a skills_dir that goes through a symlink.
RegistrySkillPath(skill_name) ==
    CASE skill_name = "skill-a" -> DirSkillA
      [] skill_name = "skill-b" -> DirSkillB
      [] skill_name = "aliased" -> <<"alias">>
      [] OTHER -> DirSkillEnd

RegistrySkills == {"skill-a", "skill-b", "aliased"}

Raised(exc) == [kind |-> "raise", exc |-> exc, value |-> ""]

Returned(v) == [kind |-> "return", exc |-> None, value |-> v]

NotCalled == [kind |-> "none", exc |-> None, value |-> ""]

\* Mutant: containment tested on the joined path before canonicalisation.
read_skill_resource_unresolved(skill_name, file_path, disk) ==
    LET skill_root == Resolve(RegistrySkillPath(skill_name))
        candidate == JoinPath(skill_root, file_path)
    IN  IF ~RelativeTo(candidate, skill_root) THEN Raised("SecurityError")
        ELSE IF Resolve(candidate) \notin disk THEN Raised("FileNotFoundError")
        ELSE IF Resolve(candidate) \in Undecodable THEN Raised("UnicodeDecodeError")
        ELSE Returned(ReadText(Resolve(candidate)))

\* Mutant: existence is tested before containment.
read_skill_resource_exists_first(skill_name, file_path, disk) ==
    LET skill_root == Resolve(RegistrySkillPath(skill_name))
        candidate == Resolve(JoinPath(skill_root, file_path))
    IN  IF candidate \notin disk THEN Raised("FileNotFoundError")
        ELSE IF ~RelativeTo(candidate, skill_root) THEN Raised("SecurityError")
        ELSE IF candidate \in Undecodable THEN Raised("UnicodeDecodeError")
        ELSE Returned(ReadText(candidate))

read_skill_resource(skill_name, file_path, disk) ==
    LET skill_root == Resolve(RegistrySkillPath(skill_name))
        candidate == Resolve(JoinPath(skill_root, file_path))
    IN  IF ~RelativeTo(candidate, skill_root) THEN Raised("SecurityError")
        ELSE IF candidate \notin disk THEN Raised("FileNotFoundError")
        ELSE IF candidate \in Undecodable THEN Raised("UnicodeDecodeError")
        ELSE Returned(ReadText(candidate))

PathComponents ==
    {"..", "template.txt", "sub", "out", "secret.txt", "etc", "passwd", "skills",
     "skill-a", "missing.txt"}

RequestedPaths ==
    {Path(a, p) : a \in BOOLEAN, p \in SeqsUpTo(PathComponents, MaxPathLen)}

\* A thread that has not run yet: no channel of AgentState holds a value.
FreshThread ==
    /\ messages = <<>>
    /\ skills_metadata = <<>>
    /\ active_skills = <<>>
    /\ loaded_skills = <<>>
    /\ skill_loaders = <<>>
    /\ agent_config = None
    /\ next = "Missing"
    /\ previous_specialist = None
    /\ supervisor_reasoning = <<>>

NoRun ==
    /\ catalog = <<>>
    /\ pc = "idle"
    /\ steps = 0
    /\ outcome = "idle"
    /\ calls = <<>>
    /\ files = StaticFiles
    /\ NoDiscovery
    /\ keep_history = TRUE

InitSandbox ==
    /\ spec_kind = "sandbox"
    /\ inp \in [skill_name : RegistrySkills, file_path : RequestedPaths]
    /\ res = NotCalled
    /\ FreshThread
    /\ NoRun

ReadSkillResource ==
    /\ spec_kind = "sandbox"
    /\ res.kind = "none"
    /\ res' = read_skill_resource(inp.skill_name, inp.file_path, StaticFiles)
    /\ UNCHANGED <<diskVars, spec_kind, inp, stateVars, runVars>>

NextSandbox == ReadSkillResource

SpecSandbox == InitSandbox /\ [][NextSandbox]_vars

(***************************************************************************)
(* C2: read_skill_resource returns contents only when the canonical target *)
(* (".." and symlinks resolved) lies inside the canonical skill directory, *)
(* and then they are the contents of that target; every request whose      *)
(* canonical target is outside the directory, relative or absolute, raises *)
(* SecurityError; a file directly inside the directory is read.            *)
(***************************************************************************)
SandboxRoot == Resolve(RegistrySkillPath(inp.skill_name))

SandboxTarget == Resolve(JoinPath(SandboxRoot, inp.file_path))

C2_SandboxContainment ==
    (spec_kind = "sandbox" /\ res.kind # "none") =>
        /\ res.kind = "return" =>
              /\ IsPrefix(SandboxRoot, SandboxTarget)
              /\ res.value = ReadText(SandboxTarget)
        /\ ~IsPrefix(SandboxRoot, SandboxTarget) =>
              (res.kind = "raise" /\ res.exc = "SecurityError")
        /\ (~inp.file_path.abs /\ inp.file_path.parts = <<"template.txt">>) =>
              res = Returned(ReadText(SandboxRoot \o <<"template.txt">>))

\* Reached: a ".." escape and an absolute path were refused, a symlink leaving the
\* skill was refused, and a file inside was read.
C2_Witness ==
    /\ spec_kind = "sandbox"
    /\ res = Raised("SecurityError")
    /\ inp.skill_name = "aliased"
    /\ inp.file_path = Path(FALSE, <<"out">>)

(***************************************************************************)
(* The skill catalog: the metadata dicts discover_skills returns.          *)
(***************************************************************************)
Meta(name, dir, scripts, tools) ==
    [name |-> name, description |-> "about " \o name, skill_dir |-> dir,
     has_scripts |-> scripts, tools |-> tools]

MetaA == Meta("skill-a", DirSkillA, FALSE, <<>>)

MetaB == Meta("skill-b", DirSkillB, FALSE, <<"file_write", "file_read", "teleport">>)

\* "end" satisfies the name rules of parse_skill_metadata.
MetaEnd == Meta("end", DirSkillEnd, FALSE, <<>>)

Catalogs == { <<MetaA, MetaB>>, <<MetaA, MetaEnd>>, <<>> }

Names(metas) == {metas[i].name : i \in 1..Len(metas)}

NameList(metas) == [i \in 1..Len(metas) |-> metas[i].name]

(***************************************************************************)
(* Messages (langchain_core.messages).                                     *)
(***************************************************************************)
Msg(type, content, tool_calls, tool_call_id, name, turn) ==
    [type |-> type, content |-> content, tool_calls |-> tool_calls,
     tool_call_id |-> tool_call_id, name |-> name, turn |-> turn]

HumanMessage(content, turn) == Msg("human", content, <<>>, None, None, turn)

AIMessage(content, tool_calls) == Msg("ai", content, tool_calls, None, None, 0)

ToolMessage(content, tool_call_id, name) == Msg("tool", content, <<>>, tool_call_id, name, 0)

RoutingInstruction == HumanMessage("Based on the conversation above, decide the next step.", 0)

(***************************************************************************)
(* supervisor.py                                                           *)
(***************************************************************************)
\* What the model hands back to supervisor_node. mode "structured": the object
\* with_structured_output(SupervisorDecision).invoke returned; mode "text":
\* structured output is unavailable (AttributeError / NotImplementedError) and
\* llm.invoke returned a message whose content is `content`. A text is a sequence
\* of tokens: a word, a JSON object {"next": text, ...} (has_next) or
\* {"reasoning": ...} (no next key), or a brace group that is not JSON.
\* mode "unparsed": structured output is available and the model's answer does
\* not parse or validate as a SupervisorDecision, so structured_llm.invoke
\* raised (OutputParserException / pydantic ValidationError).
Tok(kind, text, has_next) == [kind |-> kind, text |-> text, has_next |-> has_next]

Word(w) == Tok("word", w, FALSE)

JsonNext(v) == Tok("json", v, TRUE)

JsonNoNext == Tok("json", "because", FALSE)

BadJson(w) == Tok("badjson", w, FALSE)

Structured(nxt) == [mode |-> "structured", next |-> nxt, reasoning |-> <<"model said so">>,
                    content |-> <<>>]

Text(content) == [mode |-> "text", next |-> None, reasoning |-> <<>>, content |-> content]

Unparsed == [mode |-> "unparsed", next |-> None, reasoning |-> <<>>, content |-> <<>>]

\* str.lower() on the spellings the model's texts use.
Lower(w) ==
    CASE w \in {"FINISH", "Finish"} -> "finish"
      [] w = "SKILL-A" -> "skill-a"
      [] w = "Skill-B" -> "skill-b"
      [] OTHER -> w

\* `needle in content_lower`: a token carries the needle when its lower-cased
\* text is the needle, or is a longer word around it ("unfinished").
InLower(needle, content) ==
    \E i \in 1..Len(content) :
        \/ Lower(content[i].text) = needle
        \/ (needle = "finish" /\ content[i].text = "unfinished")

\* A prompt is a sequence of segments; `words` is what len(text.split()) counts.
Seg(kind, skill, text, words) == [kind |-> kind, skill |-> skill, text |-> text, words |-> words]

build_workers_list(metas) ==
    IF metas = <<>>
    THEN <<Seg("no_workers", None, "No specialized workers available.", 4)>>
    ELSE [i \in 1..Len(metas) |->
            Seg("worker_line", metas[i].name, metas[i].description, 4)]

get_previous_specialist(st) == st.previous_specialist

\* re.search(r'\{[^}]+\}'): the first brace group of the text, 0 when there is none.
FirstBraceGroup(content) ==
    IF \E i \in 1..Len(content) : content[i].kind # "word"
    THEN CHOOSE i \in 1..Len(content) :
            /\ content[i].kind # "word"
            /\ \A j \in 1..(i - 1) : content[j].kind = "word"
    ELSE 0

\* The first catalog worker whose name occurs in the text, 0 when none does.
FirstWorkerIn(content, metas) ==
    IF \E i \in 1..Len(metas) : InLower(Lower(metas[i].name), content)
    THEN CHOOSE i \in 1..Len(metas) :
            /\ InLower(Lower(metas[i].name), content)
            /\ \A j \in 1..(i - 1) : ~InLower(Lower(metas[j].name), content)
    ELSE 0

Decision(nxt, reasoning) == [next |-> nxt, reasoning |-> reasoning]

_parse_supervisor_response(content, metas) ==
    LET g == FirstBraceGroup(content)
        w == FirstWorkerIn(content, metas)
    IN  IF g # 0 /\ content[g].kind = "json"
        THEN Decision(IF content[g].has_next THEN content[g].text ELSE "FINISH",
                      <<"reasoning of the JSON object">>)
        ELSE IF InLower("finish", content)
        THEN Decision("FINISH", <<"Parsed FINISH from response">>)
        ELSE IF w # 0
        THEN Decision(metas[w].name,
                      <<"Parsed", metas[w].name, "from response">>)
        ELSE Decision("FINISH", <<"Could not parse response, defaulting to FINISH">>)

\* The message list supervisor_node passes to the model.
supervisor_llm_messages(st) ==
    [system |-> build_workers_list(st.skills_metadata)
                 \o <<Seg("previous_specialist", get_previous_specialist(st), "", 1)>>,
     messages |-> st.messages \o <<RoutingInstruction>>]

SupervisorRaw(st, out) ==
    IF out.mode = "structured" THEN Decision(out.next, out.reasoning)
    ELSE _parse_supervisor_response(out.content, st.skills_metadata)

\* try: structured_llm.invoke(...) except (AttributeError, NotImplementedError):
\* the exception that leaves supervisor_node, None when it returns.
supervisor_node_raises(out) ==
    IF out.mode = "unparsed" THEN "OutputParserException" ELSE None

\* Mutant: the decision is committed without validation against the roster.
supervisor_node_unvalidated(st, out) ==
    LET raw == SupervisorRaw(st, out)
    IN  [next |-> raw.next,
         previous_specialist |-> IF raw.next # "FINISH" THEN raw.next
                                 ELSE st.previous_specialist,
         supervisor_reasoning |-> raw.reasoning]

\* Mutant: the specialist of record is overwritten on FINISH as well.
supervisor_node_forgets(st, out) ==
    LET raw == SupervisorRaw(st, out)
        valid == raw.next \in (Names(st.skills_metadata) \cup {"FINISH"})
        next_worker == IF valid THEN raw.next ELSE "FINISH"
    IN  [next |-> next_worker,
         previous_specialist |-> IF next_worker # "FINISH" THEN next_worker ELSE None,
         supervisor_reasoning |-> raw.reasoning]

supervisor_node(st, out) ==
    LET raw == SupervisorRaw(st, out)
        valid == raw.next \in (Names(st.skills_metadata) \cup {"FINISH"})
        next_worker == IF valid THEN raw.next ELSE "FINISH"
        reasoning == IF valid THEN raw.reasoning
                     ELSE <<"Invalid worker", raw.next, "specified, defaulting to FINISH">>
    IN  [next |-> next_worker,
         previous_specialist |-> IF next_worker # "FINISH" THEN next_worker
                                 ELSE st.previous_specialist,
         supervisor_reasoning |-> reasoning]

route_supervisor(st) ==
    LET next_node == IF st.next = "Missing" THEN "FINISH" ELSE st.next
    IN  IF next_node = "FINISH" THEN "end" ELSE next_node

(***************************************************************************)
(* Tool calls and the tools (standard_tools.py, nodes.py).                 *)
(***************************************************************************)
\* tool_call = {"name", "args": {"skill_name", "file_path"}, "id"}; an argument
\* the call does not carry is None / the empty path.
NoPath == Path(FALSE, <<>>)

ToolCall(name, skill_name, file_path) ==
    [name |-> name, skill_name |-> skill_name, file_path |-> file_path, id |-> "?"]

\* The model numbers the calls of one response.
WithIds(tool_calls) ==
    [i \in 1..Len(tool_calls) |-> [tool_calls[i] EXCEPT !.id = "call-" \o ToString(i)]]

\* _file_root(): AGENTS_WITH_INTENT_FILE_ROOT (or the working directory), resolved.
FileRoot == Resolve(<<"data">>)

STANDARD_TOOLS ==
    {"file_read", "file_write", "file_append", "file_list", "run_command", "calculate",
     "web_search"}

\* _resolve_path_in_root: the canonical path, or PermissionError outside the root.
_resolve_path_in_root(user_path) ==
    LET candidate == Resolve(JoinPath(FileRoot, user_path))
    IN  IF RelativeTo(candidate, FileRoot) THEN Returned(PathStr(candidate))
        ELSE Raised("PermissionError")

ResolvedInRoot(user_path) == Resolve(JoinPath(FileRoot, user_path))

IsDir(p, disk) == p \in Dirs \/ \E f \in disk : IsPrefix(p, f) /\ f # p

\* What a standard file tool returns (its own try/except included) and the
\* files on disk afterwards.
ToolOut(content, disk) == [content |-> content, files |-> disk]

file_read(file_path, disk) ==
    LET r == _resolve_path_in_root(file_path)
        path == ResolvedInRoot(file_path)
    IN  IF r.kind = "raise" THEN ToolOut("Error: Permission denied", disk)
        ELSE IF path \notin disk /\ ~IsDir(path, disk) THEN ToolOut("Error: File not found", disk)
        ELSE IF path \notin disk THEN ToolOut("Error: Not a file", disk)
        ELSE ToolOut(ReadText(path), disk)

file_write(file_path, disk) ==
    LET r == _resolve_path_in_root(file_path)
        path == ResolvedInRoot(file_path)
    IN  IF r.kind = "raise" THEN ToolOut("Error: Permission denied", disk)
        ELSE IF IsDir(path, disk) THEN ToolOut("Error writing file", disk)
        ELSE ToolOut("Successfully wrote", disk \cup {path})

file_append(file_path, disk) ==
    LET r == _resolve_path_in_root(file_path)
        path == ResolvedInRoot(file_path)
    IN  IF r.kind = "raise" THEN ToolOut("Error: Permission denied", disk)
        ELSE IF IsDir(path, disk) THEN ToolOut("Error appending to file", disk)
        ELSE ToolOut("Successfully appended", disk \cup {path})

file_list(directory_path, disk) ==
    LET r == _resolve_path_in_root(directory_path)
        path == ResolvedInRoot(directory_path)
    IN  IF r.kind = "raise" THEN ToolOut("Error: Permission denied", disk)
        ELSE IF path \notin disk /\ ~IsDir(path, disk)
             THEN ToolOut("Error: Directory not found", disk)
        ELSE IF ~IsDir(path, disk) THEN ToolOut("Error: Not a directory", disk)
        ELSE ToolOut("listing of " \o PathStr(path), disk)

\* tool_func.invoke(tool_args) for a bound standard tool.
InvokeStandardTool(name, call, disk) ==
    CASE name = "file_read" -> file_read(call.file_path, disk)
      [] name = "file_write" -> file_write(call.file_path, disk)
      [] name = "file_append" -> file_append(call.file_path, disk)
      [] name = "file_list" -> file_list(call.file_path, disk)
      [] OTHER -> ToolOut("result of " \o name, disk)

ScriptNames == <<"build.sh", "run.py">>

\* str.replace('.', '_').replace('-', '_') on the names in use.
Underscored(name) ==
    CASE name = "skill-a" -> "skill_a"
      [] name = "skill-b" -> "skill_b"
      [] name = "build.sh" -> "build_sh"
      [] name = "run.py" -> "run_py"
      [] OTHER -> name

\* create_script_tool: the tool name of a script.
ScriptToolName(skill_name, script_name) ==
    Underscored(skill_name) \o "_" \o Underscored(script_name)

\* create_tools_from_active_skills([skill_name], {skill_name: skill_metadata}).
create_script_tools(skill_metadata, scripts) ==
    IF ~skill_metadata.has_scripts THEN <<>>
    ELSE LET found == SelectSeq(ScriptNames, LAMBDA f : f \in scripts)
         IN  [k \in 1..Len(found) |-> ScriptToolName(skill_metadata.name, found[k])]

\* list_skill_scripts(skill_dir): the names of the files in scripts/.
list_skill_scripts(skill_dir, disk) ==
    {Last(f) : f \in {g \in disk : Front(g) = skill_dir \o <<"scripts">>}}

\* create_tools_from_active_skills(names, skill_loaders): the names of the
\* script tools it creates.
create_tools_from_active_skills(names, loaders, disk) ==
    UNION { {create_script_tools(loaders[n], list_skill_scripts(loaders[n].skill_dir, disk))[k] :
                k \in 1..Len(create_script_tools(loaders[n],
                                                 list_skill_scripts(loaders[n].skill_dir, disk)))} :
            n \in {names[j] : j \in 1..Len(names)} \cap DOMAIN loaders }

\* The standard tools a worker binds: those the descriptor requests that exist.
WorkerToolNames(skill_metadata) ==
    {skill_metadata.tools[i] : i \in 1..Len(skill_metadata.tools)} \cap STANDARD_TOOLS

(***************************************************************************)
(* Tool execution (nodes.py). A batch runs call by call over local copies  *)
(* of active_skills, loaded_skills and skill_loaders; `raised` stops it.   *)
(***************************************************************************)
\* only_messages: the node returned {"messages": []} and no other key.
Acc(tool_messages, active, loaded, loaders, disk, raised) ==
    [messages |-> tool_messages, active_skills |-> active, loaded_skills |-> loaded,
     skill_loaders |-> loaders, files |-> disk, raised |-> raised, only_messages |-> FALSE]

AppendNew(list, x) == IF \E i \in 1..Len(list) : list[i] = x THEN list ELSE Append(list, x)

Put(loaders, k, v) == [n \in DOMAIN loaders \cup {k} |-> IF n = k THEN v ELSE loaders[n]]

\* for meta in skills_metadata: if meta.get("name") == skill_name: ... break
FindMeta(metas, skill_name) ==
    IF skill_name \in Names(metas)
    THEN CHOOSE i \in 1..Len(metas) :
            /\ metas[i].name = skill_name
            /\ \A j \in 1..(i - 1) : metas[j].name # skill_name
    ELSE 0

Say(acc, content, call) ==
    [acc EXCEPT !.messages = Append(@, ToolMessage(content, call.id, call.name))]

\* Mutant: a name the catalog does not hold is reported and made active.
_handle_load_skill_unknown_active(call, st, acc) ==
    LET i == FindMeta(st.skills_metadata, call.skill_name) IN
    IF call.skill_name \in {None, ""} THEN Say(acc, "Error: missing skill_name", call)
    ELSE IF i = 0
    THEN Say([acc EXCEPT !.active_skills = AppendNew(@, call.skill_name)],
             "Error: unknown skill", call)
    ELSE Say([acc EXCEPT !.active_skills = AppendNew(@, call.skill_name),
                         !.loaded_skills = AppendNew(@, call.skill_name),
                         !.skill_loaders = Put(@, call.skill_name, st.skills_metadata[i])],
             "Loaded skill", call)

\* Mutant: the loaded skill is not recorded as active.
_handle_load_skill_loaded_only(call, st, acc) ==
    LET i == FindMeta(st.skills_metadata, call.skill_name) IN
    IF call.skill_name \in {None, ""} THEN Say(acc, "Error: missing skill_name", call)
    ELSE IF i = 0 THEN Say(acc, "Error: unknown skill", call)
    ELSE Say([acc EXCEPT !.loaded_skills = AppendNew(@, call.skill_name),
                         !.skill_loaders = Put(@, call.skill_name, st.skills_metadata[i])],
             "Loaded skill", call)

\* Mutant: the name is appended without looking for it in the lists.
_handle_load_skill_appending(call, st, acc) ==
    LET i == FindMeta(st.skills_metadata, call.skill_name) IN
    IF call.skill_name \in {None, ""} THEN Say(acc, "Error: missing skill_name", call)
    ELSE IF i = 0 THEN Say(acc, "Error: unknown skill", call)
    ELSE Say([acc EXCEPT !.active_skills = Append(@, call.skill_name),
                         !.loaded_skills = Append(@, call.skill_name),
                         !.skill_loaders = Put(@, call.skill_name, st.skills_metadata[i])],
             "Loaded skill", call)

_handle_load_skill(call, st, acc) ==
    LET i == FindMeta(st.skills_metadata, call.skill_name) IN
    IF call.skill_name \in {None, ""} THEN Say(acc, "Error: missing skill_name", call)
    ELSE IF i = 0 THEN Say(acc, "Error: unknown skill", call)
    ELSE Say([acc EXCEPT !.active_skills = AppendNew(@, call.skill_name),
                         !.loaded_skills = AppendNew(@, call.skill_name),
                         !.skill_loaders = Put(@, call.skill_name, st.skills_metadata[i])],
             "Loaded skill", call)

\* Mutant: the sandbox violation is reported to the model like any tool error.
_handle_read_skill_resource_soft(call, st, acc) ==
    LET i == FindMeta(st.skills_metadata, call.skill_name)
        known == call.skill_name \in DOMAIN acc.skill_loaders \/ i # 0
        meta == IF call.skill_name \in DOMAIN acc.skill_loaders
                THEN acc.skill_loaders[call.skill_name]
                ELSE st.skills_metadata[i]
        skill_root == Resolve(meta.skill_dir)
        candidate == Resolve(JoinPath(skill_root, call.file_path))
    IN  IF call.skill_name \in {None, ""} \/ call.file_path = NoPath
        THEN Say(acc, "Error: expected skill_name and file_path", call)
        ELSE IF ~known THEN Say(acc, "Error: unknown skill", call)
        ELSE IF ~RelativeTo(candidate, skill_root) THEN Say(acc, "Error: Access denied", call)
        ELSE IF candidate \notin acc.files THEN Say(acc, "Error: file not found", call)
        ELSE IF candidate \in Undecodable THEN [acc EXCEPT !.raised = "UnicodeDecodeError"]
        ELSE Say(acc, ReadText(candidate), call)

_handle_read_skill_resource(call, st, acc) ==
    LET i == FindMeta(st.skills_metadata, call.skill_name)
        known == call.skill_name \in DOMAIN acc.skill_loaders \/ i # 0
        meta == IF call.skill_name \in DOMAIN acc.skill_loaders
                THEN acc.skill_loaders[call.skill_name]
                ELSE st.skills_metadata[i]
        skill_root == Resolve(meta.skill_dir)
        candidate == Resolve(JoinPath(skill_root, call.file_path))
    IN  IF call.skill_name \in {None, ""} \/ call.file_path = NoPath
        THEN Say(acc, "Error: expected skill_name and file_path", call)
        ELSE IF ~known THEN Say(acc, "Error: unknown skill", call)
        ELSE IF ~RelativeTo(candidate, skill_root)
        THEN [acc EXCEPT !.raised = "SecurityError"]
        ELSE IF candidate \notin acc.files THEN Say(acc, "Error: file not found", call)
        ELSE IF candidate \in Undecodable THEN [acc EXCEPT !.raised = "UnicodeDecodeError"]
        ELSE Say(acc, ReadText(candidate), call)

\* Mutant: a call of a tool that is not bound is passed over.
ExecuteCall_unbound_skipped(call, st, acc, tools_by_name) ==
    IF call.name = "load_skill" THEN _handle_load_skill(call, st, acc)
    ELSE IF call.name = "read_skill_resource" THEN _handle_read_skill_resource(call, st, acc)
    ELSE IF call.name \in tools_by_name
    THEN LET out == InvokeStandardTool(call.name, call, acc.files)
         IN  [Say(acc, out.content, call) EXCEPT !.files = out.files]
    ELSE acc

\* One iteration of the loop over tool_calls; tools_by_name holds the bound names.
ExecuteCall(call, st, acc, tools_by_name) ==
    IF call.name = "load_skill" THEN _handle_load_skill(call, st, acc)
    ELSE IF call.name = "read_skill_resource" THEN _handle_read_skill_resource(call, st, acc)
    ELSE IF call.name \in tools_by_name
    THEN LET out == InvokeStandardTool(call.name, call, acc.files)
         IN  [Say(acc, out.content, call) EXCEPT !.files = out.files]
    ELSE Say(acc, "Tool not found", call)

RECURSIVE ExecuteCalls(_, _, _, _)
ExecuteCalls(tool_calls, st, acc, tools_by_name) ==
    IF tool_calls = <<>> \/ acc.raised # None THEN acc
    ELSE ExecuteCalls(Tail(tool_calls), st,
                      ExecuteCall(Head(tool_calls), st, acc, tools_by_name), tools_by_name)

HasToolCalls(st) ==
    /\ st.messages # <<>>
    /\ Last(st.messages).type = "ai"
    /\ Last(st.messages).tool_calls # <<>>

\* worker_tool_node of create_worker_tool_execution_node(skill_name, skill_metadata).
worker_tool_node(skill_metadata, st, disk) ==
    LET start == Acc(<<>>, st.active_skills,
                     IF st.loaded_skills # <<>> THEN st.loaded_skills ELSE st.active_skills,
                     st.skill_loaders, disk, None)
    IN  IF ~HasToolCalls(st) THEN [start EXCEPT !.only_messages = TRUE]
        ELSE ExecuteCalls(Last(st.messages).tool_calls, st, start,
                          WorkerToolNames(skill_metadata))

\* Mutant: the script tools of every active skill can be dispatched.
tool_execution_node_active(st, disk) ==
    LET start == Acc(<<>>, st.active_skills, st.loaded_skills, st.skill_loaders, disk, None)
    IN  IF ~HasToolCalls(st) THEN [start EXCEPT !.only_messages = TRUE]
        ELSE ExecuteCalls(Last(st.messages).tool_calls, st, start,
                          create_tools_from_active_skills(st.active_skills,
                                                          st.skill_loaders, disk))

\* tool_execution_node of the flat graph: only script tools of loaded skills
\* can be dispatched; the tool map is built before the calls run.
tool_execution_node(st, disk) ==
    LET start == Acc(<<>>, st.active_skills, st.loaded_skills, st.skill_loaders, disk, None)
    IN  IF ~HasToolCalls(st) THEN [start EXCEPT !.only_messages = TRUE]
        ELSE ExecuteCalls(Last(st.messages).tool_calls, st, start,
                          create_tools_from_active_skills(st.loaded_skills,
                                                          st.skill_loaders, disk))

\* The tools llm_generation_node binds to the model, by name.
generation_tools(st, disk) ==
    create_tools_from_active_skills(st.loaded_skills, st.skill_loaders, disk)
        \cup {"load_skill", "read_skill_resource"}

\* Mutant: any AI message sends the worker to its tools.
worker_should_continue_any_ai(st) ==
    IF st.messages # <<>> /\ Last(st.messages).type = "ai" THEN "tools" ELSE "supervisor"

worker_should_continue(st) == IF HasToolCalls(st) THEN "tools" ELSE "supervisor"

should_continue(st) == IF HasToolCalls(st) THEN "tools" ELSE "end"

\* Mutant: generation follows skill selection whatever the messages are.
should_generate_always(st) == "generate"

should_generate(st) == IF st.messages = <<>> THEN "end" ELSE "generate"

(***************************************************************************)
(* System prompts (nodes.py).                                              *)
(***************************************************************************)
\* SkillLoader(meta).load_instructions(): the body of the skill's SKILL.md.
Instructions(skill_dir) == "body of " \o PathStr(skill_dir \o <<"SKILL.md">>)

AgentConfigText == "persona"

AgentConfigSegs(st) ==
    IF st.agent_config # None THEN <<Seg("agent_config", None, st.agent_config, 1)>> ELSE <<>>

AvailableSkillsSegs(st) ==
    IF st.skills_metadata = <<>> THEN <<>>
    ELSE <<Seg("open_available_skills", None, "<available_skills>", 1)>>
         \o [i \in 1..Len(st.skills_metadata) |->
                Seg("description", st.skills_metadata[i].name,
                    st.skills_metadata[i].description, 4)]
         \o <<Seg("close_available_skills", None, "</available_skills>", 1)>>

RECURSIVE ActivatedSegs(_, _)
ActivatedSegs(names, loaders) ==
    IF names = <<>> THEN <<>>
    ELSE (IF Head(names) \in DOMAIN loaders
          THEN << Seg("open_skill", Head(names), "<skill name=>", 2),
                  Seg("instructions", Head(names),
                      Instructions(loaders[Head(names)].skill_dir), 3),
                  Seg("close_skill", Head(names), "</skill>", 1) >>
          ELSE <<>>)
         \o ActivatedSegs(Tail(names), loaders)

\* Mutant: every activated skill is disclosed, loaded or not.
build_system_prompt_active(st) ==
    AgentConfigSegs(st) \o AvailableSkillsSegs(st)
        \o (IF st.active_skills # <<>> /\ DOMAIN st.skill_loaders # {}
            THEN <<Seg("open_activated_skills", None, "<activated_skills>", 1)>>
                 \o ActivatedSegs(st.active_skills, st.skill_loaders)
                 \o <<Seg("close_activated_skills", None, "</activated_skills>", 1)>>
            ELSE <<>>)
        \o <<Seg("guidance", None, "## Skill Selection", 70)>>

build_system_prompt(st) ==
    AgentConfigSegs(st) \o AvailableSkillsSegs(st)
        \o (IF st.loaded_skills # <<>> /\ DOMAIN st.skill_loaders # {}
            THEN <<Seg("open_activated_skills", None, "<activated_skills>", 1)>>
                 \o ActivatedSegs(st.loaded_skills, st.skill_loaders)
                 \o <<Seg("close_activated_skills", None, "</activated_skills>", 1)>>
            ELSE <<>>)
        \o <<Seg("guidance", None, "## Skill Selection", 70)>>

\* Mutant: the worker is also shown the body of every loaded skill.
build_worker_system_prompt_all(skill_metadata, st) ==
    AgentConfigSegs(st)
        \o << Seg("open_active_skill", skill_metadata.name, skill_metadata.description, 5),
              Seg("instructions", skill_metadata.name,
                  Instructions(skill_metadata.skill_dir), 3),
              Seg("close_active_skill", skill_metadata.name, "</active_skill>", 1) >>
        \o ActivatedSegs(st.loaded_skills, st.skill_loaders)
        \o <<Seg("guidance", None, "## Your Role", 60)>>

build_worker_system_prompt(skill_metadata, st) ==
    AgentConfigSegs(st)
        \o << Seg("open_active_skill", skill_metadata.name, skill_metadata.description, 5),
              Seg("instructions", skill_metadata.name,
                  Instructions(skill_metadata.skill_dir), 3),
              Seg("close_active_skill", skill_metadata.name, "</active_skill>", 1),
              Seg("guidance", None, "## Your Role", 60) >>

\* len(prompt.split())
RECURSIVE WordCount(_)
WordCount(prompt) == IF prompt = <<>> THEN 0 ELSE Head(prompt).words + WordCount(Tail(prompt))

HasSeg(prompt, kind, text) ==
    \E i \in 1..Len(prompt) : prompt[i].kind = kind /\ prompt[i].text = text

(***************************************************************************)
(* Nodes of the flat graph (nodes.py).                                     *)
(***************************************************************************)
\* tokenize(): the [a-z0-9]+ runs of the text, plus the hints for "-".
tokenize(text) ==
    CASE text = "hello" -> {"hello"}
      [] text = "5-2" -> {"5", "2", "minus", "subtract"}
      [] text = "about skill-a" -> {"about", "skill", "a", "minus", "subtract"}
      [] text = "about skill-b" -> {"about", "skill", "b", "minus", "subtract"}
      [] text = "about end" -> {"about", "end"}
      [] OTHER -> {text}

LastHumanContent(msgs) ==
    IF \E i \in 1..Len(msgs) : msgs[i].type = "human"
    THEN msgs[CHOOSE i \in 1..Len(msgs) :
                 /\ msgs[i].type = "human"
                 /\ \A j \in (i + 1)..Len(msgs) : msgs[j].type # "human"].content
    ELSE ""

RECURSIVE SelectSkills(_, _, _, _)
SelectSkills(metas, last_message, active, loaders) ==
    IF metas = <<>> THEN [active_skills |-> active, skill_loaders |-> loaders]
    ELSE LET meta == Head(metas)
             hit == /\ ~\E i \in 1..Len(active) : active[i] = meta.name
                    /\ tokenize(meta.description) \cap tokenize(last_message) # {}
         IN  SelectSkills(Tail(metas), last_message,
                          IF hit THEN Append(active, meta.name) ELSE active,
                          IF hit THEN Put(loaders, meta.name, meta) ELSE loaders)

\* skill_selection_node: the update it returns ({} when there is nothing to match).
skill_selection_node(st) ==
    IF st.messages = <<>> \/ LastHumanContent(st.messages) = ""
    THEN [active_skills |-> st.active_skills, skill_loaders |-> st.skill_loaders]
    ELSE SelectSkills(st.skills_metadata, LastHumanContent(st.messages),
                      st.active_skills, st.skill_loaders)

\* The message list llm_generation_node passes to the model.
generation_llm_messages(st) ==
    [node |-> "generate", system |-> build_system_prompt(st), messages |-> st.messages]

\* The message list worker_node passes to the model.
worker_llm_messages(skill_metadata, st) ==
    [node |-> skill_metadata.name, system |-> build_worker_system_prompt(skill_metadata, st),
     messages |-> st.messages]

\* worker_node of create_worker_node(skill_name, llm, skill_metadata): its update.
worker_node(skill_metadata, st, response) ==
    LET loaded == IF st.loaded_skills # <<>> THEN st.loaded_skills ELSE st.active_skills
    IN  [messages |-> <<response>>,
         active_skills |-> AppendNew(st.active_skills, skill_metadata.name),
         loaded_skills |-> AppendNew(loaded, skill_metadata.name),
         skill_loaders |-> Put(st.skill_loaders, skill_metadata.name, skill_metadata)]

(***************************************************************************)
(* supervisor_node called on a state, as the supervisor graph and the      *)
(* tests call it.                                                          *)
(***************************************************************************)
St ==
    [messages |-> messages, skills_metadata |-> skills_metadata,
     active_skills |-> active_skills, loaded_skills |-> loaded_skills,
     skill_loaders |-> skill_loaders, agent_config |-> agent_config,
     next |-> next, previous_specialist |-> previous_specialist]

StructuredNexts == {"skill-a", "skill-b", "end", "FINISH", "finish", "ghost", None}

TextTokens ==
    { Word("FINISH"), Word("unfinished"), Word("SKILL-A"), Word("skill-b"), Word("end"),
      Word("hmm"), JsonNext("skill-a"), JsonNext("ghost"), JsonNext("FINISH"),
      JsonNoNext, BadJson("skill-b") }

SupervisorOutputs ==
    {Structured(n) : n \in StructuredNexts} \cup {Unparsed}
        \cup {Text(c) : c \in SeqsUpTo(TextTokens, MaxTextLen)}

InitSupervisorNode ==
    /\ spec_kind = "supervisor_node"
    /\ inp \in [out : SupervisorOutputs,
                skills_metadata : Catalogs,
                previous_specialist : {None, "skill-a", "skill-b", "end"},
                next : {"Missing", "FINISH", "skill-a"}]
    /\ res = NotCalled
    /\ messages = <<HumanMessage("hello", 1)>>
    /\ skills_metadata = inp.skills_metadata
    /\ active_skills = <<>>
    /\ loaded_skills = <<>>
    /\ skill_loaders = <<>>
    /\ agent_config = None
    /\ next = inp.next
    /\ previous_specialist = inp.previous_specialist
    /\ supervisor_reasoning = <<>>
    /\ NoRun

\* LangGraph writes the returned update into the channels it names.
SupervisorNodeCall ==
    /\ spec_kind = "supervisor_node"
    /\ res.kind = "none"
    /\ IF supervisor_node_raises(inp.out) # None
       THEN /\ res' = Raised(supervisor_node_raises(inp.out))
            /\ UNCHANGED <<next, previous_specialist, supervisor_reasoning>>
       ELSE /\ LET update == supervisor_node(St, inp.out) IN
                 /\ next' = update.next
                 /\ previous_specialist' = update.previous_specialist
                 /\ supervisor_reasoning' = update.supervisor_reasoning
            /\ res' = Returned("update")
    /\ UNCHANGED <<diskVars, spec_kind, inp, messages, skills_metadata, active_skills, loaded_skills,
                   skill_loaders, agent_config, runVars>>

NextSupervisorNode == SupervisorNodeCall

SpecSupervisorNode == InitSupervisorNode /\ [][NextSupervisorNode]_vars

(***************************************************************************)
(* C1: after supervisor_node, for structured, JSON-in-text and free-text   *)
(* model output and any catalog, `next` is a skill name of the state's     *)
(* skills_metadata or "FINISH"; a decision naming anything else is         *)
(* replaced by "FINISH" and the reasoning mentions the invalid value.      *)
(***************************************************************************)
C1_NextIsRosterOrFinish ==
    (spec_kind = "supervisor_node" /\ res.kind = "return") =>
        LET raw == SupervisorRaw(St, inp.out) IN
        /\ next \in Names(skills_metadata) \cup {"FINISH"}
        /\ raw.next \notin (Names(skills_metadata) \cup {"FINISH"}) =>
              /\ next = "FINISH"
              /\ \E i \in 1..Len(supervisor_reasoning) : supervisor_reasoning[i] = raw.next

\* Reached: a JSON-in-text decision for a worker the catalog does not hold.
C1_Witness ==
    /\ spec_kind = "supervisor_node"
    /\ res.kind = "return"
    /\ inp.out = Text(<<Word("hmm"), JsonNext("ghost")>>)
    /\ skills_metadata = <<MetaA, MetaB>>
    /\ next = "FINISH"
    /\ supervisor_reasoning = <<"Invalid worker", "ghost", "specified, defaulting to FINISH">>

(***************************************************************************)
(* C6: on a supervisor step whose validated decision is a worker name,     *)
(* previous_specialist becomes that name; on "FINISH" previous_specialist  *)
(* keeps the value it had before the step.                                 *)
(***************************************************************************)
C6_PreviousSpecialistRule ==
    (spec_kind = "supervisor_node" /\ res.kind = "return") =>
        /\ next # "FINISH" => previous_specialist = next
        /\ next = "FINISH" => previous_specialist = inp.previous_specialist

\* Reached: a FINISH decision kept the specialist, and a routed worker replaced one.
C6_Witness ==
    /\ spec_kind = "supervisor_node"
    /\ res.kind = "return"
    /\ inp.previous_specialist = "skill-a"
    /\ inp.out = Structured("FINISH")
    /\ previous_specialist = "skill-a"


(***************************************************************************)
(* The compiled graphs (builder.py) and one turn run through them.         *)
(* spec_kind says which graph the thread runs: "flat" is                   *)
(* create_agent_graph as Agent drives it, "supervisor" is                  *)
(* create_supervisor_graph. pc is the node LangGraph runs next.            *)
(***************************************************************************)
END == "__end__"

ToolNode(skill_name) == skill_name \o "_tools"

\* routing_map = {"end": END}; then routing_map[skill_name] = skill_name.
RoutingMap(metas) ==
    [k \in {"end"} \cup Names(metas) |-> IF k \in Names(metas) THEN k ELSE END]

\* {"tools": tool_node_name, "supervisor": "supervisor"}
WorkerEdges(skill_name) ==
    [k \in {"tools", "supervisor"} |->
        IF k = "tools" THEN ToolNode(skill_name) ELSE "supervisor"]

\* router(state) of create_worker_router.
router(st) == IF worker_should_continue(st) = "tools" THEN "tools" ELSE "supervisor"

\* Agent.run passes recursion_limit; the supervisor graph is invoked without one
\* and runs under LangGraph's default.
RecursionLimit == 100

DefaultRecursionLimit == 25

recursion_limit == IF spec_kind = "flat" THEN RecursionLimit ELSE DefaultRecursionLimit

GraphCatalogs == { <<MetaA, MetaB>>, <<MetaA, MetaEnd>> }

UserTexts == {"hello", "5-2"}

AgentConfigPaths == {None, "agent.md"}

\* A skill-b that ships scripts/run.py, and the disk that goes with it.
MetaBScripts == Meta("skill-b", DirSkillB, TRUE, <<>>)

ScriptFiles == StaticFiles \cup { DirSkillB \o <<"scripts", "run.py">> }

\* What the model may ask for in a response; it asks for a script tool where
\* the script exists.
ToolCallPool ==
    (IF DirSkillB \o <<"scripts", "run.py">> \in files
     THEN {ToolCall("skill_b_run_py", None, NoPath)} ELSE {})
    \cup
    { ToolCall("load_skill", "skill-b", NoPath),
      ToolCall("read_skill_resource", "skill-a", Path(FALSE, <<"template.txt">>)),
      ToolCall("read_skill_resource", "skill-a", Path(FALSE, <<"..", "..", "secret.txt">>)),
      ToolCall("read_skill_resource", "skill-a", Path(FALSE, <<"logo.png">>)),
      ToolCall("file_read", None, Path(TRUE, <<"etc", "passwd">>)),
      ToolCall("file_write", None, Path(FALSE, <<"notes.txt">>)) }

Responses == {AIMessage("response", WithIds(c)) : c \in SeqsUpTo(ToolCallPool, MaxCalls)}

GraphSupervisorOutputs ==
    {Structured(n) : n \in {"skill-a", "skill-b", "end", "FINISH", "ghost"}}
        \cup {Text(<<Word("SKILL-A")>>), Unparsed}

\* len(calls): the tool calls the thread's AI messages carry so far.
RECURSIVE ToolCallsIn(_)
ToolCallsIn(msgs) ==
    IF msgs = <<>> THEN 0 ELSE Len(Head(msgs).tool_calls) + ToolCallsIn(Tail(msgs))

\* The model's response, within the bounds of the exploration.
MayRespond(response) ==
    keep_history => ToolCallsIn(messages) + Len(response.tool_calls) <= MaxToolCalls

StepLimit == IF keep_history THEN MaxSteps ELSE recursion_limit

\* Mutant: the messages channel keeps the newest message only.
Keep_newest(msgs) == IF msgs = <<>> THEN msgs ELSE <<Last(msgs)>>

\* With keep_history off only the newest message is retained, which is all the
\* routers and tool nodes look at, and the invocation log is not kept.
Keep(msgs) == IF keep_history \/ msgs = <<>> THEN msgs ELSE <<Last(msgs)>>

Log(entry) == IF keep_history THEN Append(calls, entry) ELSE calls

Running(node) == outcome = "running" /\ pc = node /\ steps < StepLimit

\* Mutant: supersteps are not counted against the limit.
Goto_uncounted(node) ==
    /\ pc' = node
    /\ steps' = steps
    /\ outcome' = IF node = END THEN "end" ELSE "running"

\* The superstep is committed and control moves along the edge taken.
Goto(node) ==
    /\ pc' = node
    /\ steps' = steps + 1
    /\ outcome' = IF node = END THEN "end" ELSE "running"

\* The node raised: the turn fails, its update is not applied.
Fail(exc) ==
    /\ pc' = pc
    /\ steps' = steps + 1
    /\ outcome' = exc

InitGraph ==
    /\ inp \in [agent_config_path : AgentConfigPaths, skills_metadata : GraphCatalogs]
    /\ spec_kind = "supervisor" => inp.agent_config_path = None
    /\ res = NotCalled
    /\ FreshThread
    /\ catalog = inp.skills_metadata
    /\ pc = "idle"
    /\ steps = 0
    /\ outcome = "idle"
    /\ calls = <<>>
    /\ files = StaticFiles
    /\ NoDiscovery

Init ==
    /\ spec_kind \in {"flat", "supervisor"}
    /\ keep_history = TRUE
    /\ InitGraph

\* The user turns the thread has seen.
Turns == Cardinality({k \in 1..Len(messages) : messages[k].type = "human"})

\* Where a thread accepts input: before its first run and after a finished one.
StartPoints == IF keep_history /\ Turns < MaxTurns THEN {"idle", END} ELSE {"idle"}

\* graph.invoke({"messages": [HumanMessage(user_input)]}, config): Agent.run and
\* the callers of the supervisor graph. The checkpointer hands the thread's
\* state to the new run; `calls` logs the model invocations of the current run.
UserTurn ==
    /\ spec_kind \in {"flat", "supervisor"}
    /\ pc \in StartPoints
    /\ \E user_input \in UserTexts :
          messages' = Keep(messages \o <<HumanMessage(user_input, Turns + 1)>>)
    /\ pc' = "load_config"
    /\ outcome' = "running"
    /\ calls' = <<>>
    /\ UNCHANGED <<diskVars, unitVars, skills_metadata, active_skills, loaded_skills, skill_loaders,
                   agent_config, next, previous_specialist, supervisor_reasoning,
                   catalog, steps, files, keep_history>>

\* Agent.__init__ with eager_init: graph.invoke({}, config).
EagerInit ==
    /\ spec_kind = "flat"
    /\ pc = "idle"
    /\ pc' = "load_config"
    /\ outcome' = "running"
    /\ UNCHANGED <<diskVars, unitVars, stateVars, catalog, steps, calls, files, keep_history>>

LoadConfig ==
    /\ Running("load_config")
    /\ agent_config' = IF inp.agent_config_path = None THEN None ELSE AgentConfigText
    /\ Goto("discover_skills")
    /\ UNCHANGED <<diskVars, unitVars, messages, skills_metadata, active_skills, loaded_skills,
                   skill_loaders, next, previous_specialist, supervisor_reasoning,
                   catalog, calls, files, keep_history>>

DiscoverSkills ==
    /\ Running("discover_skills")
    /\ skills_metadata' = catalog
    /\ active_skills' = <<>>
    /\ loaded_skills' = <<>>
    /\ skill_loaders' = <<>>
    /\ Goto(IF spec_kind = "flat" THEN "skill_selection" ELSE "supervisor")
    /\ UNCHANGED <<diskVars, unitVars, messages, agent_config, next, previous_specialist,
                   supervisor_reasoning, catalog, calls, files, keep_history>>


\* Mutant: the list built for the model is the state's own list, so the
\* routing instruction stays in the conversation.
Supervisor_appending ==
    /\ spec_kind = "supervisor"
    /\ Running("supervisor")
    /\ \E out \in GraphSupervisorOutputs :
          IF supervisor_node_raises(out) # None
          THEN /\ Fail(supervisor_node_raises(out))
               /\ UNCHANGED <<messages, next, previous_specialist, supervisor_reasoning, calls>>
          ELSE LET update == supervisor_node(St, out)
                   routed == route_supervisor([St EXCEPT !.next = update.next])
               IN  /\ messages' = Keep(supervisor_llm_messages(St).messages)
                   /\ next' = update.next
                   /\ previous_specialist' = update.previous_specialist
                   /\ supervisor_reasoning' = update.supervisor_reasoning
                   /\ calls' = Log([node |-> "supervisor", decision |-> update.next,
                                    system |-> supervisor_llm_messages(St).system,
                                    messages |-> supervisor_llm_messages(St).messages])
                   /\ Goto(RoutingMap(catalog)[routed])
    /\ UNCHANGED <<diskVars, unitVars, skills_metadata, active_skills, loaded_skills,
                   skill_loaders, agent_config, catalog, files, keep_history>>

\* The supervisor node and the conditional edge that follows it.
Supervisor ==
    /\ spec_kind = "supervisor"
    /\ Running("supervisor")
    /\ \E out \in GraphSupervisorOutputs :
          IF supervisor_node_raises(out) # None
          THEN /\ Fail(supervisor_node_raises(out))
               /\ UNCHANGED <<next, previous_specialist, supervisor_reasoning, calls>>
          ELSE LET update == supervisor_node(St, out)
                   routed == route_supervisor([St EXCEPT !.next = update.next])
               IN  /\ next' = update.next
                   /\ previous_specialist' = update.previous_specialist
                   /\ supervisor_reasoning' = update.supervisor_reasoning
                   /\ calls' = Log([node |-> "supervisor", decision |-> update.next,
                                    system |-> supervisor_llm_messages(St).system,
                                    messages |-> supervisor_llm_messages(St).messages])
                   /\ Goto(RoutingMap(catalog)[routed])
    /\ UNCHANGED <<diskVars, unitVars, messages, skills_metadata, active_skills, loaded_skills,
                   skill_loaders, agent_config, catalog, files, keep_history>>

\* The worker node of skill catalog[i] and its router.
Worker(i) ==
    /\ spec_kind = "supervisor"
    /\ Running(catalog[i].name)
    /\ \E response \in Responses :
          /\ MayRespond(response)
          /\ LET update == worker_node(catalog[i], St, response)
                 after == [St EXCEPT !.messages = St.messages \o update.messages]
             IN  /\ messages' = Keep(after.messages)
                 /\ active_skills' = update.active_skills
                 /\ loaded_skills' = update.loaded_skills
                 /\ skill_loaders' = update.skill_loaders
                 /\ calls' = Log([node |-> catalog[i].name,
                                  decision |-> router(after),
                                  system |-> worker_llm_messages(catalog[i], St).system,
                                  messages |-> worker_llm_messages(catalog[i], St).messages])
                 /\ Goto(WorkerEdges(catalog[i].name)[router(after)])
    /\ UNCHANGED <<diskVars, unitVars, skills_metadata, agent_config, next, previous_specialist,
                   supervisor_reasoning, catalog, files, keep_history>>

\* Mutant: the tool node works on the lists and the dict of the state it
\* was given, so what it did before raising stays in the thread.
Commit_in_place(acc, node) ==
    /\ files' = acc.files
    /\ IF acc.raised # None
       THEN /\ Fail(acc.raised)
            /\ messages' = messages
            /\ active_skills' = acc.active_skills
            /\ loaded_skills' = acc.loaded_skills
            /\ skill_loaders' = acc.skill_loaders
       ELSE /\ messages' = Keep(messages \o acc.messages)
            /\ IF acc.only_messages
               THEN UNCHANGED <<active_skills, loaded_skills, skill_loaders>>
               ELSE /\ active_skills' = acc.active_skills
                    /\ loaded_skills' = acc.loaded_skills
                    /\ skill_loaders' = acc.skill_loaders
            /\ Goto(node)
    /\ UNCHANGED <<diskVars, unitVars, skills_metadata, agent_config, next, previous_specialist,
                   supervisor_reasoning, catalog, calls, keep_history>>

\* A tool node has run to `acc`: commit its update, or fail the turn.
Commit(acc, node) ==
    /\ files' = acc.files
    /\ IF acc.raised # None
       THEN /\ Fail(acc.raised)
            /\ UNCHANGED <<messages, active_skills, loaded_skills, skill_loaders>>
       ELSE /\ messages' = Keep(messages \o acc.messages)
            /\ IF acc.only_messages
               THEN UNCHANGED <<active_skills, loaded_skills, skill_loaders>>
               ELSE /\ active_skills' = acc.active_skills
                    /\ loaded_skills' = acc.loaded_skills
                    /\ skill_loaders' = acc.skill_loaders
            /\ Goto(node)
    /\ UNCHANGED <<diskVars, unitVars, skills_metadata, agent_config, next, previous_specialist,
                   supervisor_reasoning, catalog, calls, keep_history>>

\* Mutant: the tool node's edge leads to the supervisor.
WorkerTools_to_supervisor(i) ==
    /\ spec_kind = "supervisor"
    /\ Running(ToolNode(catalog[i].name))
    /\ \E acc \in {worker_tool_node(catalog[i], St, files)} : Commit(acc, "supervisor")

\* The tool node of skill catalog[i]; its edge leads back to the worker.
WorkerTools(i) ==
    /\ spec_kind = "supervisor"
    /\ Running(ToolNode(catalog[i].name))
    /\ \E acc \in {worker_tool_node(catalog[i], St, files)} : Commit(acc, catalog[i].name)

SkillSelection ==
    /\ spec_kind = "flat"
    /\ Running("skill_selection")
    /\ LET update == skill_selection_node(St) IN
          /\ active_skills' = update.active_skills
          /\ skill_loaders' = update.skill_loaders
    /\ Goto(IF should_generate(St) = "generate" THEN "generate" ELSE END)
    /\ UNCHANGED <<diskVars, unitVars, messages, skills_metadata, loaded_skills, agent_config, next,
                   previous_specialist, supervisor_reasoning, catalog, calls, files,
                   keep_history>>

Generate ==
    /\ spec_kind = "flat"
    /\ Running("generate")
    /\ \E response \in Responses :
          /\ MayRespond(response)
          /\ LET after == [St EXCEPT !.messages = St.messages \o <<response>>] IN
                /\ messages' = Keep(after.messages)
                /\ calls' = Log([node |-> "generate", decision |-> should_continue(after),
                                 system |-> generation_llm_messages(St).system,
                                 messages |-> generation_llm_messages(St).messages])
                /\ Goto(IF should_continue(after) = "tools" THEN "tools" ELSE END)
    /\ UNCHANGED <<diskVars, unitVars, skills_metadata, active_skills, loaded_skills, skill_loaders,
                   agent_config, next, previous_specialist, supervisor_reasoning,
                   catalog, files, keep_history>>

Tools ==
    /\ spec_kind = "flat"
    /\ Running("tools")
    /\ \E acc \in {tool_execution_node(St, files)} : Commit(acc, "generate")

Next ==
    \/ UserTurn
    \/ EagerInit
    \/ LoadConfig
    \/ DiscoverSkills
    \/ Supervisor
    \/ \E i \in 1..Len(catalog) : Worker(i)
    \/ \E i \in 1..Len(catalog) : WorkerTools(i)
    \/ SkillSelection
    \/ Generate
    \/ Tools

Spec == Init /\ [][Next]_vars


(***************************************************************************)
(* The load_skill handler called on one tool call and the working copies   *)
(* of a tool node (nodes.py).                                              *)
(***************************************************************************)
SkillLists == {<<>>, <<"skill-a">>, <<"skill-b">>, <<"skill-a", "skill-b">>}

InitLoadSkill ==
    /\ spec_kind = "load_skill"
    /\ inp \in [skill_name : {None, "", "skill-a", "skill-b", "ghost"},
                skills_metadata : Catalogs,
                active_skills : SkillLists,
                loaded_skills : SkillLists,
                skill_loaders : {<<>>, Put(<<>>, "skill-b", MetaEnd)}]
    /\ res = NotCalled
    /\ FreshThread
    /\ NoRun
    /\ keep_history = TRUE

HandleLoadSkill ==
    /\ spec_kind = "load_skill"
    /\ res = NotCalled
    /\ res' = Returned(_handle_load_skill(
                  [ToolCall("load_skill", inp.skill_name, NoPath) EXCEPT !.id = "call-1"],
                  [skills_metadata |-> inp.skills_metadata],
                  Acc(<<>>, inp.active_skills, inp.loaded_skills, inp.skill_loaders,
                      StaticFiles, None)))
    /\ UNCHANGED <<spec_kind, inp, stateVars, runVars, diskVars>>

NextLoadSkill == HandleLoadSkill

SpecLoadSkill == InitLoadSkill /\ [][NextLoadSkill]_vars

(***************************************************************************)
(* The tools worker_node binds to the model (nodes.py), called on a skill  *)
(* descriptor and the content of its scripts directory.                    *)
(***************************************************************************)
MaxRequested == 2

\* get_standard_tools(): the registry's tools in the order of the dict.
get_standard_tools ==
    <<"file_read", "file_write", "file_append", "file_list", "run_command", "calculate",
      "web_search">>

\* Mutant: every requested name is bound, and the core tools only when the
\* descriptor requests nothing.
worker_tools_as_requested(skill_metadata, scripts) ==
    create_script_tools(skill_metadata, scripts)
        \o skill_metadata.tools
        \o (IF skill_metadata.tools = <<>> THEN <<"load_skill", "read_skill_resource">>
            ELSE <<>>)

\* The list `tools` of worker_node, by tool name.
worker_tools(skill_metadata, scripts) ==
    create_script_tools(skill_metadata, scripts)
        \o SelectSeq(get_standard_tools,
                     LAMBDA t : \E k \in 1..Len(skill_metadata.tools) :
                                   skill_metadata.tools[k] = t)
        \o <<"load_skill", "read_skill_resource">>

RequestedTools == SeqsUpTo({"file_read", "calculate", "teleport"}, MaxRequested)

InitWorkerTools ==
    /\ spec_kind = "worker_tools"
    /\ inp \in [skill_metadata : {Meta(n, <<"skills", n>>, h, t) :
                                      n \in {"skill-a", "skill-b"}, h \in BOOLEAN,
                                      t \in RequestedTools},
                scripts : SUBSET {ScriptNames[k] : k \in 1..Len(ScriptNames)}]
    /\ res = NotCalled
    /\ FreshThread
    /\ NoRun
    /\ keep_history = TRUE

BindWorkerTools ==
    /\ spec_kind = "worker_tools"
    /\ res = NotCalled
    /\ res' = Returned(worker_tools(inp.skill_metadata, inp.scripts))
    /\ UNCHANGED <<spec_kind, inp, stateVars, runVars, diskVars>>

NextWorkerTools == BindWorkerTools

SpecWorkerTools == InitWorkerTools /\ [][NextWorkerTools]_vars

(***************************************************************************)
(* The Agent object (agent.py): the flat graph, a checkpointer, and the    *)
(* thread id its calls use. The state variables are the checkpoint of the  *)
(* agent's current thread.                                                 *)
(***************************************************************************)
\* Agent.list_skills(): read from the current thread's state.
list_skills(st) ==
    [k \in 1..Len(st.skills_metadata) |->
        [name |-> st.skills_metadata[k].name,
         description |-> st.skills_metadata[k].description,
         has_scripts |-> st.skills_metadata[k].has_scripts]]

InitAgent ==
    /\ spec_kind = "flat"
    /\ keep_history = TRUE
    /\ InitGraph

\* Agent.reset(): self.thread_id becomes a new id, for which the checkpointer
\* holds nothing. `res` keeps what list_skills() returned just before.
Reset ==
    /\ spec_kind = "flat"
    /\ outcome # "running"
    /\ res' = [kind |-> "reset", exc |-> None, value |-> list_skills(St)]
    /\ messages' = <<>>
    /\ skills_metadata' = <<>>
    /\ active_skills' = <<>>
    /\ loaded_skills' = <<>>
    /\ skill_loaders' = <<>>
    /\ agent_config' = None
    /\ next' = "Missing"
    /\ previous_specialist' = None
    /\ supervisor_reasoning' = <<>>
    /\ pc' = "idle"
    /\ outcome' = "idle"
    /\ calls' = <<>>
    /\ UNCHANGED <<diskVars, spec_kind, inp, catalog, steps, files, keep_history>>

NextAgent ==
    \/ UserTurn
    \/ EagerInit
    \/ LoadConfig
    \/ DiscoverSkills
    \/ SkillSelection
    \/ Generate
    \/ Tools
    \/ Reset

SpecAgent == InitAgent /\ [][NextAgent]_vars

(***************************************************************************)
(* The flat graph over a catalog with a skill that ships a script.         *)
(***************************************************************************)
InitFlatScripts ==
    /\ spec_kind = "flat"
    /\ keep_history = TRUE
    /\ inp \in [agent_config_path : {None}, skills_metadata : { <<MetaA, MetaBScripts>> }]
    /\ res = NotCalled
    /\ FreshThread
    /\ catalog = inp.skills_metadata
    /\ pc = "idle"
    /\ steps = 0
    /\ outcome = "idle"
    /\ calls = <<>>
    /\ files = ScriptFiles
    /\ NoDiscovery

NextFlatScripts ==
    \/ UserTurn
    \/ LoadConfig
    \/ DiscoverSkills
    \/ SkillSelection
    \/ Generate
    \/ Tools

SpecFlatScripts == InitFlatScripts /\ [][NextFlatScripts]_vars

(***************************************************************************)
(* create_supervisor_graph(llm, skills_dirs, skills_metadata=[...]): the   *)
(* worker nodes and the routing map are built from the list that was       *)
(* passed in, while the discover_skills node of the compiled graph scans   *)
(* skills_dirs when the turn runs (builder.py:161-231, nodes.py:50-69).    *)
(***************************************************************************)
\* The list passed to the builder, and what the directories hold.
PresuppliedCatalogs == { <<MetaA, MetaB>>, <<MetaA>> }

InitPresupplied ==
    /\ spec_kind = "supervisor"
    /\ keep_history = TRUE
    /\ inp \in [agent_config_path : {None}, skills_metadata : PresuppliedCatalogs,
                skills_dirs : PresuppliedCatalogs]
    /\ res = NotCalled
    /\ FreshThread
    /\ catalog = inp.skills_metadata
    /\ pc = "idle"
    /\ steps = 0
    /\ outcome = "idle"
    /\ calls = <<>>
    /\ files = StaticFiles
    /\ NoDiscovery

\* discover_skills_node(state, skills_dirs): inp.skills_dirs stands for what
\* discover_skills finds in the directories of that name.
DiscoverSkillsNode ==
    /\ Running("discover_skills")
    /\ skills_metadata' = inp.skills_dirs
    /\ active_skills' = <<>>
    /\ loaded_skills' = <<>>
    /\ skill_loaders' = <<>>
    /\ Goto("supervisor")
    /\ UNCHANGED <<diskVars, unitVars, messages, agent_config, next, previous_specialist,
                   supervisor_reasoning, catalog, calls, files, keep_history>>

\* The supervisor node and its conditional edge: a value route_supervisor
\* returns that the routing map does not hold fails the step in the lookup.
SupervisorRouted ==
    /\ spec_kind = "supervisor"
    /\ Running("supervisor")
    /\ \E out \in GraphSupervisorOutputs :
          IF supervisor_node_raises(out) # None
          THEN /\ Fail(supervisor_node_raises(out))
               /\ UNCHANGED <<next, previous_specialist, supervisor_reasoning, calls>>
          ELSE LET update == supervisor_node(St, out)
                   routed == route_supervisor([St EXCEPT !.next = update.next])
               IN  /\ calls' = Log([node |-> "supervisor", decision |-> update.next,
                                    system |-> supervisor_llm_messages(St).system,
                                    messages |-> supervisor_llm_messages(St).messages])
                   /\ IF routed \in DOMAIN RoutingMap(catalog)
                      THEN /\ next' = update.next
                           /\ previous_specialist' = update.previous_specialist
                           /\ supervisor_reasoning' = update.supervisor_reasoning
                           /\ Goto(RoutingMap(catalog)[routed])
                      ELSE /\ Fail("KeyError")
                           /\ UNCHANGED <<next, previous_specialist, supervisor_reasoning>>
    /\ UNCHANGED <<diskVars, unitVars, messages, skills_metadata, active_skills, loaded_skills,
                   skill_loaders, agent_config, catalog, files, keep_history>>

NextPresupplied ==
    \/ UserTurn
    \/ LoadConfig
    \/ DiscoverSkillsNode
    \/ SupervisorRouted
    \/ \E i \in 1..Len(catalog) : Worker(i)
    \/ \E i \in 1..Len(catalog) : WorkerTools(i)

SpecPresupplied == InitPresupplied /\ [][NextPresupplied]_vars

(***************************************************************************)
(* A thread of the supervisor graph that is used again after a turn whose  *)
(* node raised: the checkpointer kept what the steps before the failing    *)
(* one committed, and the next graph.invoke with a new user message starts *)
(* at the entry point on that state (builder.py:249-267, agent.py:115-123, *)
(* the chat loop of agent.py:291 goes on after an exception).              *)
(***************************************************************************)
InitThread ==
    /\ spec_kind = "supervisor"
    /\ keep_history = TRUE
    /\ InitGraph

\* graph.invoke({"messages": [HumanMessage(user_input)]}, config) on a thread
\* whose last run was aborted by a sandbox violation; the invocation counts
\* its supersteps anew.
UserTurnAfterAbort ==
    /\ spec_kind = "supervisor"
    /\ outcome = "SecurityError"
    /\ Turns < MaxTurns
    /\ \E user_input \in UserTexts :
          messages' = Keep(messages \o <<HumanMessage(user_input, Turns + 1)>>)
    /\ pc' = "load_config"
    /\ steps' = 0
    /\ outcome' = "running"
    /\ calls' = <<>>
    /\ UNCHANGED <<diskVars, unitVars, skills_metadata, active_skills, loaded_skills, skill_loaders,
                   agent_config, next, previous_specialist, supervisor_reasoning,
                   catalog, files, keep_history>>

NextThread ==
    \/ UserTurn
    \/ UserTurnAfterAbort
    \/ LoadConfig
    \/ DiscoverSkills
    \/ Supervisor
    \/ \E i \in 1..Len(catalog) : Worker(i)
    \/ \E i \in 1..Len(catalog) : WorkerTools(i)

SpecThread == InitThread /\ [][NextThread]_vars

(***************************************************************************)
(* The same turn under the step budget of its invocation: LangGraph counts *)
(* supersteps and raises GraphRecursionError when the limit is reached     *)
(* before the run has finished.                                            *)
(***************************************************************************)
InitBudget ==
    /\ spec_kind \in {"flat", "supervisor"}
    /\ keep_history = FALSE
    /\ InitGraph

BudgetExceeded ==
    /\ ~keep_history
    /\ outcome = "running"
    /\ steps = recursion_limit
    /\ outcome' = "GraphRecursionError"
    /\ UNCHANGED <<diskVars, unitVars, stateVars, catalog, pc, steps, calls, files, keep_history>>

NextBudget ==
    \/ Next
    \/ BudgetExceeded

SpecBudget == InitBudget /\ [][NextBudget]_vars


(***************************************************************************)
(* Vocabulary of the claims about tool execution.                          *)
(***************************************************************************)
AtWorkerToolNode(i) == outcome = "running" /\ pc = ToolNode(catalog[i].name)

AtToolNode ==
    \/ spec_kind = "flat" /\ outcome = "running" /\ pc = "tools"
    \/ spec_kind = "supervisor" /\ \E i \in 1..Len(catalog) : AtWorkerToolNode(i)

PendingCalls == IF HasToolCalls(St) THEN Last(messages).tool_calls ELSE <<>>

\* A read_skill_resource call for a catalog skill whose canonical target
\* lies outside that skill's canonical directory.
EscapesSkill(call) ==
    /\ call.name = "read_skill_resource"
    /\ call.skill_name \in Names(skills_metadata)
    /\ call.file_path # NoPath
    /\ LET dir == Resolve(skills_metadata[FindMeta(skills_metadata, call.skill_name)].skill_dir)
       IN  ~IsPrefix(dir, Resolve(JoinPath(dir, call.file_path)))

PendingEscape == \E k \in 1..Len(PendingCalls) : EscapesSkill(PendingCalls[k])

\* A read_skill_resource call for a catalog skill whose target is a regular
\* file inside the skill's directory that is not UTF-8 text.
ReadsUndecodable(call) ==
    /\ call.name = "read_skill_resource"
    /\ call.skill_name \in Names(skills_metadata)
    /\ call.file_path # NoPath
    /\ LET dir == Resolve(skills_metadata[FindMeta(skills_metadata, call.skill_name)].skill_dir)
           target == Resolve(JoinPath(dir, call.file_path))
       IN  IsPrefix(dir, target) /\ target \in files /\ target \in Undecodable

PendingUndecodable == \E k \in 1..Len(PendingCalls) : ReadsUndecodable(PendingCalls[k])

\* The batch reaches an escaping call: no call before it stops the loop.
EscapeReached ==
    \E k \in 1..Len(PendingCalls) :
        /\ EscapesSkill(PendingCalls[k])
        /\ \A j \in 1..(k - 1) : ~ReadsUndecodable(PendingCalls[j])

FileTools == {"file_read", "file_write", "file_append", "file_list"}

\* A call of a file tool the worker has bound, with a path outside the file root.
EscapesFileRoot(call, i) ==
    /\ call.name \in FileTools \cap WorkerToolNames(catalog[i])
    /\ ~IsPrefix(FileRoot, Resolve(JoinPath(FileRoot, call.file_path)))

\* The tool messages a committed batch appended answer its calls one by one.
AnswersPending(msgs) ==
    /\ Len(msgs) = Len(messages) + Len(PendingCalls)
    /\ SubSeq(msgs, 1, Len(messages)) = messages
    /\ \A k \in 1..Len(PendingCalls) :
          /\ msgs[Len(messages) + k].type = "tool"
          /\ msgs[Len(messages) + k].tool_call_id = PendingCalls[k].id

(***************************************************************************)
(* C3: when a tool-execution node (the flat one or a worker's) reaches a   *)
(* read_skill_resource call that resolves outside the skill directory, the *)
(* node fails with SecurityError and commits no message; no batch holding  *)
(* such a call is answered with the turn still running; and a batch of     *)
(* calls that fail in the ways the node reports (unknown skill, missing    *)
(* file, unbound tool, refused path) is answered by one ToolMessage per    *)
(* call and the turn goes on.                                              *)
(***************************************************************************)
C3_SecurityErrorPropagates ==
    [][ /\ (AtToolNode /\ EscapeReached) =>
              (outcome' = "SecurityError" /\ messages' = messages)
        /\ (AtToolNode /\ PendingEscape) =>
              (outcome' \notin {"running", "end"} /\ messages' = messages)
        /\ (AtToolNode /\ ~PendingEscape /\ ~PendingUndecodable) =>
              (outcome' = "running" /\ AnswersPending(messages')) ]_vars

\* Reached: a worker's tool node failed on the escaping call although an
\* earlier call of the same batch had failed as an ordinary tool error.
C3_Witness ==
    /\ spec_kind = "supervisor"
    /\ outcome = "SecurityError"
    /\ pc = ToolNode("skill-a")
    /\ Len(PendingCalls) = 2
    /\ PendingCalls[1].name = "file_read"
    /\ EscapesSkill(PendingCalls[2])

(***************************************************************************)
(* C4: when a worker's tool node runs a bound file tool (file_read,        *)
(* file_write, file_append, file_list) with a path that resolves outside   *)
(* the file root, the turn fails; the violation does not come back as a    *)
(* ToolMessage with the turn still running.                                *)
(***************************************************************************)
C4_FileSandboxViolationPropagates ==
    [][ \A i \in 1..Len(catalog) :
          ( /\ spec_kind = "supervisor"
            /\ AtWorkerToolNode(i)
            /\ \E k \in 1..Len(PendingCalls) : EscapesFileRoot(PendingCalls[k], i) )
          => outcome' \notin {"running", "end"} ]_vars

(***************************************************************************)
(* C7: in the supervisor graph of any catalog with valid skill names, once *)
(* the decision is "FINISH" (or there is none) the turn ends: no worker    *)
(* node and no worker tool node is scheduled.                              *)
(***************************************************************************)
C7_FinishEndsTurn ==
    ( /\ spec_kind = "supervisor"
      /\ outcome = "running"
      /\ pc \notin {"load_config", "discover_skills", "supervisor"} )
    => next \notin {"FINISH", "Missing"}

(***************************************************************************)
(* C8: when the supervisor's first decision of the turn is a known worker  *)
(* w, w answers without tool calls and the supervisor then decides FINISH, *)
(* the model is invoked exactly three times (supervisor, w, supervisor)    *)
(* and each invocation's message list holds the user's message once.       *)
(***************************************************************************)
UserOccurrences(msgs) ==
    Cardinality({k \in 1..Len(msgs) : msgs[k].type = "human" /\ msgs[k].turn = Turns})

C8_TwoHopTurn ==
    ( /\ spec_kind = "supervisor"
      /\ Len(calls) >= 3
      /\ calls[1].node = "supervisor" /\ calls[1].decision \in Names(catalog)
      /\ calls[2].decision = "supervisor"
      /\ calls[3].node = "supervisor" /\ calls[3].decision = "FINISH" )
    => /\ Len(calls) = 3
       /\ calls[2].node = calls[1].decision
       /\ \A k \in 1..3 : UserOccurrences(calls[k].messages) = 1


(***************************************************************************)
(* C10: the flat graph's system prompt names every discovered skill's      *)
(* description; with no skill loaded it holds no instruction body; a       *)
(* loaded skill's body is in it and a body of a skill that was not loaded  *)
(* is not, even when that skill was activated by selection; and a tool     *)
(* step that loads a skill makes the rebuilt prompt strictly longer.       *)
(***************************************************************************)
LoadedSet == {loaded_skills[k] : k \in 1..Len(loaded_skills)}

C10_ProgressiveDisclosure ==
    /\ [](spec_kind = "flat" =>
            LET prompt == build_system_prompt(St) IN
            /\ \A i \in 1..Len(skills_metadata) :
                  /\ HasSeg(prompt, "description", skills_metadata[i].description)
                  /\ skills_metadata[i].name \in LoadedSet <=>
                        HasSeg(prompt, "instructions",
                               Instructions(skills_metadata[i].skill_dir))
            /\ loaded_skills = <<>> =>
                  ~\E k \in 1..Len(prompt) : prompt[k].kind = "instructions")
    /\ [][(spec_kind = "flat" /\ pc = "tools" /\ loaded_skills' # loaded_skills) =>
             WordCount(build_system_prompt(St))' > WordCount(build_system_prompt(St))]_vars

\* Reached: skill-b was loaded by load_skill while skill-a, activated by the
\* selection step, was not.
C10_Witness ==
    /\ spec_kind = "flat"
    /\ pc = "generate"
    /\ loaded_skills = <<"skill-b">>
    /\ active_skills = <<"skill-a", "skill-b">>
    /\ Last(messages).type = "tool"
    /\ Last(messages).content = "Loaded skill"

(***************************************************************************)
(* C5: every turn terminates. While a turn runs, control is at a node of   *)
(* the graph with budget left or the budget is used up; every step either  *)
(* ends the turn or adds one to a step count that never passes the         *)
(* invocation's recursion limit; and a turn ends at END, with              *)
(* GraphRecursionError at the limit, or with the error a node let through  *)
(* (SecurityError or UnicodeDecodeError of a tool node, the parse error of *)
(* the supervisor's structured output). A turn that ends normally has      *)
(* reached END.                                                            *)
(***************************************************************************)
\* The nodes create_agent_graph / create_supervisor_graph add.
GraphNodes ==
    IF spec_kind = "flat"
    THEN {"load_config", "discover_skills", "skill_selection", "generate", "tools"}
    ELSE {"load_config", "discover_skills", "supervisor"}
            \cup Names(catalog) \cup {ToolNode(n) : n \in Names(catalog)}

\* A node is scheduled and may run, or the limit is reached and the run is cut.
StepAvailable == pc \in GraphNodes /\ steps <= recursion_limit

RouterMessages ==
    { HumanMessage("hello", 1),
      AIMessage("response", <<>>),
      AIMessage("response", WithIds(<<ToolCall("load_skill", "skill-b", NoPath)>>)),
      AIMessage("response", WithIds(<<ToolCall("load_skill", "skill-b", NoPath),
                                      ToolCall("file_write", None,
                                               Path(FALSE, <<"notes.txt">>))>>)),
      ToolMessage("Loaded skill", "call-1", "load_skill") }

InitRouter ==
    /\ spec_kind = "router"
    /\ inp \in [messages : SeqsUpTo(RouterMessages, MaxHistory),
                skills_metadata : GraphCatalogs, worker : 1..2]
    /\ res = NotCalled
    /\ messages = inp.messages
    /\ skills_metadata = inp.skills_metadata
    /\ active_skills = <<>>
    /\ loaded_skills = <<>>
    /\ skill_loaders = <<>>
    /\ agent_config = None
    /\ next = inp.skills_metadata[inp.worker].name
    /\ previous_specialist = None
    /\ supervisor_reasoning = <<>>
    /\ catalog = inp.skills_metadata
    /\ pc = inp.skills_metadata[inp.worker].name
    /\ steps = 0
    /\ outcome = "running"
    /\ calls = <<>>
    /\ files = StaticFiles
    /\ NoDiscovery
    /\ keep_history = TRUE

\* The conditional edge after worker pc: router(state), then the edge map.
WorkerRoute ==
    /\ spec_kind = "router"
    /\ res.kind = "none"
    /\ pc' = WorkerEdges(pc)[router(St)]
    /\ res' = Returned(worker_should_continue(St))
    /\ UNCHANGED <<diskVars, spec_kind, inp, stateVars, catalog, steps, outcome, calls, files,
                   keep_history>>

NextRouter == WorkerRoute

SpecRouter == InitRouter /\ [][NextRouter]_vars

(***************************************************************************)
(* C9: after a worker has generated, control goes to that worker's tool    *)
(* node exactly when the last message is an AI message with at least one   *)
(* tool call; otherwise (no tool calls, another kind of message last, no   *)
(* message at all) it goes back to the supervisor.                         *)
(***************************************************************************)
C9_WorkerRouting ==
    (spec_kind = "router" /\ res.kind = "return") =>
        LET worker == inp.skills_metadata[inp.worker].name
            wants_tools == /\ Len(messages) >= 1
                           /\ messages[Len(messages)].type = "ai"
                           /\ Len(messages[Len(messages)].tool_calls) >= 1
        IN  /\ wants_tools <=> pc = worker \o "_tools"
            /\ ~wants_tools <=> pc = "supervisor"
            /\ res.value = (IF wants_tools THEN "tools" ELSE "supervisor")

\* Reached: an AI message without tool calls, after an earlier one that had
\* some, sent the worker named "end" back to the supervisor.
C9_Witness ==
    /\ spec_kind = "router"
    /\ res.kind = "return"
    /\ pc = "supervisor"
    /\ inp.skills_metadata[inp.worker].name = "end"
    /\ Len(messages) = 2
    /\ messages[1].tool_calls # <<>>
    /\ messages[2] = AIMessage("response", <<>>)


(***************************************************************************)
(* C11: in every state of a thread of either graph, every name in          *)
(* loaded_skills is in active_skills and is a key of skill_loaders.        *)
(***************************************************************************)
ActiveSet == {active_skills[k] : k \in 1..Len(active_skills)}

C11_LoadedWithinActive ==
    spec_kind \in {"flat", "supervisor"} =>
        \A n \in LoadedSet : n \in ActiveSet /\ n \in DOMAIN skill_loaders

\* Reached: in the flat graph skill-b was loaded by load_skill although the
\* selection step had activated nothing.
C11_Witness ==
    /\ spec_kind = "flat"
    /\ loaded_skills = <<"skill-b">>
    /\ LastHumanContent(messages) = "hello"
    /\ pc = "generate"

(***************************************************************************)
(* C12: a name that is in the thread's active_skills stays in it in every  *)
(* later state, later user turns included.                                 *)
(***************************************************************************)
C12_ActiveSkillsPersist ==
    [][\A k \in 1..Len(active_skills) :
          \E j \in 1..Len(active_skills') : active_skills'[j] = active_skills[k] ]_vars

(***************************************************************************)
(* C13: the message sequence is append-only: every step of every node, and *)
(* every new user turn, leaves the previous sequence as a prefix of the    *)
(* new one.                                                                *)
(***************************************************************************)
C13_MessagesAppendOnly ==
    [][ (spec_kind \in {"flat", "supervisor"}) => IsPrefix(messages, messages') ]_vars

\* Reached: a second user turn was appended behind the first turn's human,
\* AI and tool messages.
C13_Witness ==
    /\ spec_kind \in {"flat", "supervisor"}
    /\ Turns = 2
    /\ Len(messages) >= 4
    /\ messages[1].type = "human" /\ messages[1].turn = 1
    /\ messages[2].type = "ai"
    /\ messages[3].type = "tool"
    /\ Last(messages).type = "human" /\ Last(messages).turn = 2

(***************************************************************************)
(* C14: the system prompt a worker hands to the model holds the full       *)
(* instructions of the worker's own skill and the instructions of no other *)
(* skill, whatever was activated or loaded earlier on the thread, a        *)
(* load_skill call inside the worker's own session included.               *)
(***************************************************************************)
\* The instruction bodies a prompt holds.
InstructionsIn(prompt) ==
    {prompt[k].text : k \in {j \in 1..Len(prompt) : prompt[j].kind = "instructions"}}

\* The calls of the turn a worker made to its model.
WorkerCalls == {k \in 1..Len(calls) : calls[k].node \in Names(catalog)}

C14_WorkerPromptOwnSkillOnly ==
    spec_kind = "supervisor" =>
        \A k \in WorkerCalls :
            InstructionsIn(calls[k].system) =
                {Instructions(catalog[FindMeta(catalog, calls[k].node)].skill_dir)}

\* Reached: skill-a's worker loaded skill-b in its own session and was called
\* again with the result of that load_skill call.
C14_Witness ==
    /\ spec_kind = "supervisor"
    /\ Len(calls) = 3
    /\ calls[3].node = "skill-a"
    /\ Last(calls[3].messages).type = "tool"
    /\ Last(calls[3].messages).content = "Loaded skill"
    /\ loaded_skills = <<"skill-a", "skill-b">>

(***************************************************************************)
(* C15: after a load_skill call for a catalog skill X succeeded in a       *)
(* worker's tool step, the system prompt of that worker's next call to the *)
(* model includes X's full instructions.                                   *)
(***************************************************************************)
\* The tool calls of the response a message list ends with the results of.
AnsweredCalls(msgs) ==
    IF \E k \in 1..Len(msgs) : msgs[k].type = "ai"
    THEN LET k == CHOOSE j \in 1..Len(msgs) :
                     /\ msgs[j].type = "ai"
                     /\ \A h \in (j + 1)..Len(msgs) : msgs[h].type # "ai"
         IN  IF k < Len(msgs) /\ \A h \in (k + 1)..Len(msgs) : msgs[h].type = "tool"
             THEN [calls_made |-> msgs[k].tool_calls, results |-> SubSeq(msgs, k + 1, Len(msgs))]
             ELSE [calls_made |-> <<>>, results |-> <<>>]
    ELSE [calls_made |-> <<>>, results |-> <<>>]

\* The skills whose load_skill call the list ends with the success of.
JustLoaded(msgs) ==
    LET a == AnsweredCalls(msgs)
    IN  {a.calls_made[j].skill_name :
            j \in {h \in 1..Len(a.calls_made) :
                      /\ a.calls_made[h].name = "load_skill"
                      /\ \E r \in 1..Len(a.results) :
                             /\ a.results[r].tool_call_id = a.calls_made[h].id
                             /\ a.results[r].content = "Loaded skill"}}

C15_LoadedSkillInNextWorkerPrompt ==
    spec_kind = "supervisor" =>
        \A k \in WorkerCalls :
            \A x \in JustLoaded(calls[k].messages) :
                HasSeg(calls[k].system, "instructions",
                       Instructions(catalog[FindMeta(catalog, x)].skill_dir))

(***************************************************************************)
(* C16: every tool failure other than a sandbox escape is recovered inside *)
(* the tool-execution step: a batch without an escaping call is answered   *)
(* by one ToolMessage per call and the turn goes on, nothing is raised.    *)
(***************************************************************************)
C16_ToolFailuresBecomeToolMessages ==
    [][ (AtToolNode /\ ~PendingEscape) =>
            (outcome' = "running" /\ AnswersPending(messages')) ]_vars

(***************************************************************************)
(* C17: whenever the model's routing decision is unroutable or unparsable  *)
(* (structured output that does not parse or validate, a structured name   *)
(* outside the roster, text whose JSON object has no usable next, text     *)
(* with neither JSON nor a worker name), supervisor_node returns with      *)
(* next = "FINISH" and a reasoning text; nothing is raised.                *)
(***************************************************************************)
\* The JSON object a text carries, as re.search finds it: 0 when there is none.
JsonIn(content) ==
    LET g == FirstBraceGroup(content)
    IN  IF g # 0 /\ content[g].kind = "json" THEN g ELSE 0

\* The decision cannot be routed to a worker of the catalog nor is it FINISH.
Unroutable(out, metas) ==
    \/ out.mode = "unparsed"
    \/ out.mode = "structured" /\ out.next \notin (Names(metas) \cup {"FINISH"})
    \/ /\ out.mode = "text"
       /\ JsonIn(out.content) # 0
       /\ \/ ~out.content[JsonIn(out.content)].has_next
          \/ out.content[JsonIn(out.content)].text \notin (Names(metas) \cup {"FINISH"})
    \/ /\ out.mode = "text"
       /\ JsonIn(out.content) = 0
       /\ FirstWorkerIn(out.content, metas) = 0

C17_UnroutableDefaultsToFinish ==
    (spec_kind = "supervisor_node" /\ res.kind # "none"
        /\ Unroutable(inp.out, skills_metadata)) =>
        /\ res.kind = "return"
        /\ next = "FINISH"
        /\ supervisor_reasoning # <<>>

(***************************************************************************)
(* C18: when the decision is decoded from text that carries no JSON        *)
(* object, a catalog worker named in the text is selected first; "FINISH"  *)
(* is selected only when no worker is named; with neither in the text the  *)
(* result is "FINISH" with the synthesized reasoning. A text naming both a *)
(* worker and "finish" decodes to the worker.                              *)
(***************************************************************************)
C18_WorkerNameBeforeFinish ==
    (spec_kind = "supervisor_node" /\ res.kind = "return"
        /\ inp.out.mode = "text" /\ JsonIn(inp.out.content) = 0) =>
        LET w == FirstWorkerIn(inp.out.content, skills_metadata) IN
        /\ w # 0 => next = skills_metadata[w].name
        /\ w = 0 => next = "FINISH"
        /\ (w = 0 /\ ~InLower("finish", inp.out.content)) =>
               supervisor_reasoning = <<"Could not parse response, defaulting to FINISH">>

(***************************************************************************)
(* Skill discovery (skills/discovery.py, skills/parser.py) and             *)
(* SkillRegistry.discover (skills/registry.py), called on a disk whose     *)
(* descriptors are edited between calls.                                   *)
(***************************************************************************)
\* Where a SKILL.md may live: directly under a skills directory, nested one
\* level deeper, and under a second configured directory.
DescriptorPaths ==
    { <<"skills", "skill-a", "SKILL.md">>,
      <<"skills", "group", "skill-b", "SKILL.md">>,
      <<"extra", "skill-a", "SKILL.md">> }

\* A header that is not YAML: yaml.safe_load raises on it.
Malformed == "<not YAML>"

\* The `name` a header declares: None when the key is absent; "Skill_A" does
\* not match ^[a-z0-9-]+$.
HeaderNames == {None, "skill-a", "skill-b", "Skill_A", Malformed}

\* The optional `metadata` mapping of a header: absent, a mapping with text
\* keys, or one with an integer key as YAML reads `1: first`.
TextKeys == "{'author': 'x'}"

IntKeys == "{1: 'first'}"

HeaderMetadata == {None, TextKeys, IntKeys}

\* A descriptor on disk: its header's name and metadata mapping and what
\* stat() reports; an edit changes st_mtime_ns (and st_size).
Header(name, mtime_ns, metadata) == [name |-> name, mtime_ns |-> mtime_ns, metadata |-> metadata]

\* json.loads(json.dumps(value)) on a header's metadata mapping: JSON object
\* keys are text, so the integer key comes back as '1'.
JsonRoundTrip(value) == IF value = IntKeys THEN "{'1': 'first'}" ELSE value

\* skill_file.parent.name
FolderName(skill_file) == skill_file[Len(skill_file) - 1]

\* skills_dir.glob("**/SKILL.md")
Glob(skills_dir, disk) == {f \in DOMAIN disk : IsPrefix(skills_dir, f) /\ Last(f) = "SKILL.md"}

\* The orders in which a glob may yield a set of files.
Orders(S) ==
    {o \in [1..Cardinality(S) -> S] : \A i, j \in 1..Cardinality(S) : o[i] = o[j] => i = j}

\* The files in the order the two nested loops of discover_skills visit them.
RECURSIVE Listings(_, _)
Listings(skills_dirs, disk) ==
    IF skills_dirs = <<>> THEN {<<>>}
    ELSE {o \o rest : o \in Orders(Glob(Head(skills_dirs), disk)),
                      rest \in Listings(Tail(skills_dirs), disk)}

\* A metadata dict as parse_skill_metadata builds it and the cache stores it;
\* a key the dict does not hold is None. is_dict FALSE: a cached "metadata"
\* that is no JSON object.
Metadata(is_dict, name, description, metadata) ==
    [is_dict |-> is_dict, name |-> name, description |-> description, metadata |-> metadata]

\* parse_skill_metadata: the metadata dict, or ValueError for a header without
\* name or with an invalid one.
parse_skill_metadata(skill_file, disk) ==
    LET name == disk[skill_file].name
    IN  IF name = None THEN Raised("ValueError")
        ELSE IF name \notin {"skill-a", "skill-b"} THEN Raised("ValueError")
        ELSE [kind |-> "return", exc |-> None,
              value |-> Metadata(TRUE, name, "about " \o name, disk[skill_file].metadata)]

\* The skills cache file. readable FALSE: no file, or one that is not JSON;
\* entries_ok FALSE: "entries" is no JSON object. An entry is
\* [mtime_ns, metadata]; mtime_ns -1 stands for stat fields that are missing
\* or no numbers (size goes with mtime_ns).
CacheDoc(readable, version, skills_dirs, entries_ok, entries) ==
    [readable |-> readable, version |-> version, skills_dirs |-> skills_dirs,
     entries_ok |-> entries_ok, entries |-> entries]

NoCache == CacheDoc(FALSE, 0, <<>>, FALSE, <<>>)

CacheEntry(mtime_ns, metadata) == [mtime_ns |-> mtime_ns, metadata |-> metadata]

\* Mutant: the directory list the cache was written for is not compared.
_load_cache_any_dirs(doc, skills_dirs) ==
    IF ~doc.readable THEN <<>>
    ELSE IF doc.version # 1 THEN <<>>
    ELSE IF ~doc.entries_ok THEN <<>>
    ELSE doc.entries

\* _load_cache: the entries, {} for anything that is not a version 1 document
\* for these skills_dirs.
_load_cache(doc, skills_dirs) ==
    IF ~doc.readable THEN <<>>
    ELSE IF doc.version # 1 THEN <<>>
    ELSE IF doc.skills_dirs # skills_dirs THEN <<>>
    ELSE IF ~doc.entries_ok THEN <<>>
    ELSE doc.entries

\* _save_cache: json.dumps of the payload, written to the cache path.
_save_cache(skills_dirs, entries) ==
    CacheDoc(TRUE, 1, skills_dirs, TRUE,
             [f \in DOMAIN entries |->
                 CacheEntry(entries[f].mtime_ns,
                            [entries[f].metadata EXCEPT !.metadata = JsonRoundTrip(@)])])

\* The loop state of discover_skills.
Scan(skills, seen_names, entries, raised) ==
    [skills |-> skills, seen_names |-> seen_names, entries |-> entries, raised |-> raised]

\* The dict discover_skills appends for a file.
SkillEntry(skill_file, metadata) ==
    [name |-> metadata.name, description |-> metadata.description,
     metadata |-> IF metadata.metadata = None THEN "{}" ELSE metadata.metadata,
     path |-> skill_file, skill_dir |-> Front(skill_file)]

\* Mutant: metadata taken from the cache is not checked against seen_names.
ScanFile_cache_unchecked(scan, skill_file, disk) ==
    LET stat == disk[skill_file].mtime_ns
        hit == /\ skill_file \in DOMAIN scan.entries
               /\ scan.entries[skill_file].mtime_ns = stat
               /\ scan.entries[skill_file].metadata.is_dict
        parsed == parse_skill_metadata(skill_file, disk)
        metadata == IF hit THEN scan.entries[skill_file].metadata ELSE parsed.value
        entries == IF hit THEN scan.entries
                   ELSE Put(scan.entries, skill_file, CacheEntry(stat, metadata))
    IN  IF ~hit /\ parsed.kind = "raise" THEN [scan EXCEPT !.raised = "ValueError"]
        ELSE IF metadata.name = None THEN [scan EXCEPT !.raised = "KeyError"]
        ELSE IF ~hit /\ metadata.name \in scan.seen_names
        THEN [scan EXCEPT !.raised = "ValueError"]
        ELSE IF metadata.description = None THEN [scan EXCEPT !.raised = "KeyError"]
        ELSE Scan(Append(scan.skills, SkillEntry(skill_file, metadata)),
                  scan.seen_names \cup {metadata.name}, entries, None)

\* One iteration of `for skill_file in skills_dir.glob("**/SKILL.md")`: the
\* cached metadata is used when the stat fields match and it is a dict.
ScanFile(scan, skill_file, disk) ==
    LET stat == disk[skill_file].mtime_ns
        hit == /\ skill_file \in DOMAIN scan.entries
               /\ scan.entries[skill_file].mtime_ns = stat
               /\ scan.entries[skill_file].metadata.is_dict
        parsed == parse_skill_metadata(skill_file, disk)
        metadata == IF hit THEN scan.entries[skill_file].metadata ELSE parsed.value
        entries == IF hit THEN scan.entries
                   ELSE Put(scan.entries, skill_file, CacheEntry(stat, metadata))
    IN  IF ~hit /\ parsed.kind = "raise" THEN [scan EXCEPT !.raised = "ValueError"]
        ELSE IF metadata.name = None THEN [scan EXCEPT !.raised = "KeyError"]
        ELSE IF metadata.name \in scan.seen_names THEN [scan EXCEPT !.raised = "ValueError"]
        ELSE IF metadata.description = None THEN [scan EXCEPT !.raised = "KeyError"]
        ELSE Scan(Append(scan.skills, SkillEntry(skill_file, metadata)),
                  scan.seen_names \cup {metadata.name}, entries, None)

RECURSIVE ScanFiles(_, _, _)
ScanFiles(scan, listing, disk) ==
    IF listing = <<>> \/ scan.raised # None THEN scan
    ELSE ScanFiles(ScanFile(scan, Head(listing), disk), Tail(listing), disk)

\* discover_skills(skills_dirs) with the cache switched on or off by the
\* environment: what it returns or raises, and the cache file afterwards
\* (_save_cache runs only when the scan came to its end).
discover_skills(skills_dirs, listing, disk, cache_enabled, cache_file) ==
    LET cache_entries == IF cache_enabled THEN _load_cache(cache_file, skills_dirs) ELSE <<>>
        scan == ScanFiles(Scan(<<>>, {}, cache_entries, None), listing, disk)
    IN  IF scan.raised # None
        THEN [res |-> Raised(scan.raised), cache |-> cache_file]
        ELSE [res |-> [kind |-> "return", exc |-> None, value |-> scan.skills],
              cache |-> IF cache_enabled THEN _save_cache(skills_dirs, scan.entries)
                        ELSE cache_file]

\* One iteration of SkillRegistry.discover's loop on self._skills (name ->
\* Skill.path): frontmatter.load raises on a header that is not YAML; a header
\* without name is filed under its folder's name; a later file replaces an
\* earlier one of the same name.
registry_discover_file(skills, skill_file, disk) ==
    LET declared == disk[skill_file].name
        name == IF declared = None THEN FolderName(skill_file) ELSE declared
    IN  IF declared = Malformed THEN [raised |-> "YAMLError", skills |-> skills]
        ELSE [raised |-> None, skills |-> Put(skills, name, Front(skill_file))]

\* What a reader thread got from list_skills / get_skill, and when.
NoRead == [called |-> FALSE, names |-> {}, scanning |-> FALSE, unchanged |-> FALSE]

\* A SkillRegistry: _skills; the files the running discover() has still to
\* visit; _skills as it was when that call began and whether it then was the
\* result of a finished scan of the disk as it still is; the last read.
Registry(skills, scanning, todo, before, unchanged, read) ==
    [skills |-> skills, scanning |-> scanning, todo |-> todo, before |-> before,
     unchanged |-> unchanged, read |-> read]

\* The descriptors a disk may hold when the first call is made.
Headers ==
    {Header(n, 0, None) : n \in HeaderNames}
        \cup {Header(n, 0, md) : n \in {"skill-a", "skill-b"}, md \in HeaderMetadata}

Disks == UNION { [present -> Headers] : present \in SUBSET DescriptorPaths }

InitDiscovery ==
    /\ spec_kind = "discovery"
    /\ inp \in [entry : {"discover_skills", "SkillRegistry.discover"},
                skills_dirs : {<<<<"skills">>>>, <<<<"skills">>, <<"extra">>>>},
                cache_enabled : BOOLEAN]
    /\ inp.entry = "SkillRegistry.discover" => ~inp.cache_enabled
    /\ res = NotCalled
    /\ descriptors \in Disks
    /\ inp.entry = "SkillRegistry.discover" =>
          \A f \in DOMAIN descriptors : descriptors[f].metadata = None
    /\ cache = NoCache
    /\ registry = Registry(<<>>, FALSE, <<>>, <<>>, FALSE, NoRead)
    /\ cache_dir = <<>>
    /\ FreshThread
    /\ catalog = <<>>
    /\ pc = "idle"
    /\ steps = 0
    /\ outcome = "idle"
    /\ calls = <<>>
    /\ files = StaticFiles
    /\ keep_history = TRUE

DiscoverSkillsCall ==
    /\ spec_kind = "discovery"
    /\ inp.entry = "discover_skills"
    /\ \E listing \in Listings(inp.skills_dirs, descriptors) :
          LET out == discover_skills(inp.skills_dirs, listing, descriptors,
                                     inp.cache_enabled, cache)
          IN  /\ res' = out.res
              /\ cache' = out.cache
    /\ UNCHANGED <<spec_kind, inp, stateVars, runVars, descriptors, registry, cache_dir>>

\* discover() begins: self._skills = {} and the glob is started.
RegistryDiscoverStart ==
    /\ spec_kind = "discovery"
    /\ inp.entry = "SkillRegistry.discover"
    /\ ~registry.scanning
    /\ \E listing \in Listings(<<Head(inp.skills_dirs)>>, descriptors) :
          /\ registry' = Registry(<<>>, listing # <<>>, listing, registry.skills,
                                  res.kind = "return", NoRead)
          /\ res' = IF listing = <<>>
                    THEN [kind |-> "return", exc |-> None, value |-> <<>>]
                    ELSE NotCalled
    /\ UNCHANGED <<spec_kind, inp, stateVars, runVars, descriptors, cache, cache_dir>>

\* One iteration of the loop; the call is over after the last file or when
\* frontmatter.load raised.
RegistryDiscoverFile ==
    /\ spec_kind = "discovery"
    /\ registry.scanning
    /\ LET out == registry_discover_file(registry.skills, Head(registry.todo), descriptors)
           over == out.raised # None \/ Tail(registry.todo) = <<>>
       IN  /\ registry' = [registry EXCEPT !.skills = out.skills,
                                           !.todo = Tail(@),
                                           !.scanning = ~over]
           /\ res' = IF out.raised # None THEN Raised(out.raised)
                     ELSE IF over THEN [kind |-> "return", exc |-> None, value |-> out.skills]
                     ELSE NotCalled
    /\ UNCHANGED <<spec_kind, inp, stateVars, runVars, descriptors, cache, cache_dir>>

\* Another thread calls list_skills() (or get_skill) on the registry.
ListSkills ==
    /\ spec_kind = "discovery"
    /\ inp.entry = "SkillRegistry.discover"
    /\ registry' = [registry EXCEPT !.read = [called |-> TRUE, names |-> DOMAIN registry.skills,
                                              scanning |-> registry.scanning,
                                              unchanged |-> registry.unchanged]]
    /\ UNCHANGED <<spec_kind, inp, res, stateVars, runVars, descriptors, cache, cache_dir>>

\* Before the first call the cache file is found with other content: left by
\* another program or version, torn, or written for other files. Metadata a cache entry may
\* hold: no dict, a dict without name, one without description, and complete
\* ones.
ForeignMetadata ==
    { Metadata(FALSE, None, None, None),
      Metadata(TRUE, None, "about skill-a", None),
      Metadata(TRUE, "skill-a", None, None),
      Metadata(TRUE, "skill-a", "about skill-a", None),
      Metadata(TRUE, "skill-b", "about skill-b", None) }

ForeignEntries ==
    UNION { [present -> {CacheEntry(t, md) : t \in {-1, 0}, md \in ForeignMetadata}] :
                present \in SUBSET { <<"skills", "skill-a", "SKILL.md">>,
                                     <<"skills", "group", "skill-b", "SKILL.md">> } }

ForeignCaches ==
    {NoCache}
        \cup {CacheDoc(TRUE, v, d, TRUE, e) :
                  v \in {1, 2}, d \in {<<<<"skills">>>>, <<<<"skills">>, <<"extra">>>>},
                  e \in ForeignEntries}
        \cup {CacheDoc(TRUE, 1, d, FALSE, <<>>) : d \in {<<<<"skills">>>>}}

InitForeignCache ==
    /\ spec_kind = "discovery"
    /\ inp \in [entry : {"discover_skills"},
                skills_dirs : {<<<<"skills">>>>, <<<<"skills">>, <<"extra">>>>},
                cache_enabled : {TRUE}]
    /\ res = NotCalled
    /\ descriptors \in Disks
    /\ \A f \in DOMAIN descriptors : descriptors[f].metadata = None
    /\ cache = NoCache
    /\ registry = Registry(<<>>, FALSE, <<>>, <<>>, FALSE, NoRead)
    /\ cache_dir = <<>>
    /\ FreshThread
    /\ catalog = <<>>
    /\ pc = "idle"
    /\ steps = 0
    /\ outcome = "idle"
    /\ calls = <<>>
    /\ files = StaticFiles
    /\ keep_history = TRUE

PlantCache ==
    /\ spec_kind = "discovery"
    /\ res = NotCalled
    /\ cache = NoCache
    /\ cache' \in ForeignCaches \ {NoCache}
    /\ res' = NotCalled
    /\ UNCHANGED <<spec_kind, inp, stateVars, runVars, descriptors, registry, cache_dir>>

NextForeignCache == DiscoverSkillsCall \/ PlantCache

SpecForeignCache == InitForeignCache /\ [][NextForeignCache]_vars

\* The edits made to the descriptors so far.
RECURSIVE EditsOf(_, _)
EditsOf(disk, paths) ==
    IF paths = {} THEN 0
    ELSE LET f == CHOOSE x \in paths : TRUE
         IN  disk[f].mtime_ns + EditsOf(disk, paths \ {f})

\* Someone rewrites a descriptor's header; what the last call returned is
\* no longer about the disk.
EditDescriptor ==
    /\ spec_kind = "discovery"
    /\ ~registry.scanning
    /\ EditsOf(descriptors, DOMAIN descriptors) < MaxEdits
    /\ \E f \in DOMAIN descriptors, h \in Headers :
          /\ h.name # descriptors[f].name \/ h.metadata # descriptors[f].metadata
          /\ inp.entry = "SkillRegistry.discover" => h.metadata = None
          /\ descriptors' = [descriptors EXCEPT
                                ![f] = Header(h.name, @.mtime_ns + 1, h.metadata)]
    /\ res' = NotCalled
    /\ UNCHANGED <<spec_kind, inp, stateVars, runVars, cache, registry, cache_dir>>

NextDiscovery ==
    \/ DiscoverSkillsCall
    \/ RegistryDiscoverStart
    \/ RegistryDiscoverFile
    \/ ListSkills
    \/ EditDescriptor

SpecDiscovery == InitDiscovery /\ [][NextDiscovery]_vars

\* The descriptors a call scans: those under a configured directory
\* (SkillRegistry takes one directory).
Scanned ==
    {f \in DOMAIN descriptors :
        \E k \in 1..(IF inp.entry = "discover_skills" THEN Len(inp.skills_dirs) ELSE 1) :
            IsPrefix(inp.skills_dirs[k], f)}

(***************************************************************************)
(* C19: a list discover_skills returns has pairwise distinct names, and    *)
(* when two scanned descriptors (in one tree or in two configured          *)
(* directories) declare the same name the call fails, whether the          *)
(* metadata was parsed or taken from the cache.                            *)
(***************************************************************************)
C19_DiscoveredNamesUnique ==
    (spec_kind = "discovery" /\ inp.entry = "discover_skills" /\ res.kind # "none") =>
        /\ res.kind = "return" =>
              \A i, j \in 1..Len(res.value) :
                  res.value[i].name = res.value[j].name => i = j
        /\ (\E f, g \in Scanned :
                /\ f # g
                /\ descriptors[f].name # None
                /\ descriptors[f].name = descriptors[g].name)
              => res.kind = "raise"

\* Reached: the call failed on a duplicate of which one descriptor was
\* answered from the cache and the other, edited since, was parsed.
C19_Witness ==
    /\ spec_kind = "discovery"
    /\ inp.entry = "discover_skills"
    /\ res = Raised("ValueError")
    /\ DOMAIN cache.entries = { <<"skills", "skill-a", "SKILL.md">>,
                                <<"skills", "group", "skill-b", "SKILL.md">> }
    /\ descriptors[<<"skills", "skill-a", "SKILL.md">>] = Header("skill-a", 0, None)
    /\ descriptors[<<"skills", "group", "skill-b", "SKILL.md">>] = Header("skill-a", 1, None)
    /\ cache.entries[<<"skills", "group", "skill-b", "SKILL.md">>].metadata.name = "skill-b"

(***************************************************************************)
(* C20: a descriptor whose header has no name is discovered under its      *)
(* folder's name, and that name takes part in the duplicate check: with    *)
(* another scanned descriptor named like the folder the call fails.        *)
(***************************************************************************)
\* The names a finished call discovered.
DiscoveredNames ==
    IF res.kind # "return" THEN {}
    ELSE IF inp.entry = "discover_skills"
    THEN {res.value[k].name : k \in 1..Len(res.value)}
    ELSE DOMAIN res.value

\* The name a descriptor goes by when an absent name defaults to the folder's.
EffectiveName(f) ==
    IF descriptors[f].name = None THEN FolderName(f) ELSE descriptors[f].name

C20_FolderNameDefault ==
    (spec_kind = "discovery" /\ res.kind # "none") =>
        \A f \in Scanned :
            descriptors[f].name = None =>
                IF \E g \in Scanned : g # f /\ EffectiveName(g) = FolderName(f)
                THEN res.kind = "raise"
                ELSE (\A g, h \in Scanned :
                         /\ EffectiveName(g) \in {"skill-a", "skill-b"}
                         /\ EffectiveName(g) = EffectiveName(h) => g = h)
                        => (res.kind = "return" /\ FolderName(f) \in DiscoveredNames)

(***************************************************************************)
(* C21: a discovery call that fails leaves no partially populated catalog  *)
(* to be seen: discover_skills returns no list, and after a failed         *)
(* SkillRegistry.discover() the registry holds no part of the scanned      *)
(* skills (it is empty or as it was before the call).                      *)
(***************************************************************************)
C21_NoPartialCatalog ==
    (spec_kind = "discovery" /\ res.kind = "raise") =>
        IF inp.entry = "discover_skills" THEN res.value = ""
        ELSE registry.skills = <<>> \/ registry.skills = registry.before

(***************************************************************************)
(* C22: while discover() runs on a registry whose directory tree did not   *)
(* change since its last finished scan, a reader of the same registry sees *)
(* the complete catalog, never an empty or partly filled one.              *)
(***************************************************************************)
C22_ReaderSeesCompleteCatalog ==
    (spec_kind = "discovery" /\ registry.read.called
        /\ registry.read.scanning /\ registry.read.unchanged) =>
        registry.read.names = DOMAIN registry.before

(***************************************************************************)
(* Concurrent _save_cache calls on one cache path. Every call writes to    *)
(* the same temporary name, path.with_suffix(path.suffix + ".tmp"), and    *)
(* then renames it over the cache path. The directory maps the two names   *)
(* to files; an open file stays the writer's whatever its name becomes.    *)
(***************************************************************************)
Savers == {"run-a", "run-b"}

\* json.dumps(payload) of a run, in the pieces write() hands to the file.
MaxChunks == 2

Payload(s) == [k \in 1..MaxChunks |-> <<s, k>>]

\* What the cache path held before: nothing or a complete older document.
OldDocument == << <<"old", 1>> >>

Hole == <<"zeros", 0>>

RECURSIVE Padded(_, _)
Padded(content, len) == IF Len(content) >= len THEN content ELSE Padded(Append(content, Hole), len)

\* write() at a file offset: bytes after a truncation by someone else land
\* behind a hole.
WriteAt(content, offset, chunk) ==
    IF offset < Len(content) THEN [content EXCEPT ![offset + 1] = chunk]
    ELSE Append(Padded(content, offset), chunk)

CacheDir(inodes, tmp, path, pcs, fd, offset) ==
    [inodes |-> inodes, tmp |-> tmp, path |-> path, pc |-> pcs, fd |-> fd, offset |-> offset]

InitSaveCache ==
    /\ spec_kind = "save_cache"
    /\ inp = None
    /\ res = NotCalled
    /\ descriptors = <<>>
    /\ cache = <<>>
    /\ registry = <<>>
    /\ \/ cache_dir = CacheDir(<<>>, 0, 0, [s \in Savers |-> "start"],
                               [s \in Savers |-> 0], [s \in Savers |-> 0])
       \/ cache_dir = CacheDir(<<OldDocument>>, 0, 1, [s \in Savers |-> "start"],
                               [s \in Savers |-> 0], [s \in Savers |-> 0])
    /\ FreshThread
    /\ catalog = <<>>
    /\ pc = "idle"
    /\ steps = 0
    /\ outcome = "idle"
    /\ calls = <<>>
    /\ files = StaticFiles
    /\ keep_history = TRUE

\* tmp.write_text begins: open(tmp, "w") creates the file or truncates the
\* one that has the name.
OpenTmp(s) ==
    /\ spec_kind = "save_cache"
    /\ cache_dir.pc[s] = "start"
    /\ cache_dir' =
          IF cache_dir.tmp = 0
          THEN [cache_dir EXCEPT !.inodes = Append(@, <<>>),
                                 !.tmp = Len(cache_dir.inodes) + 1,
                                 !.fd[s] = Len(cache_dir.inodes) + 1,
                                 !.pc[s] = "writing"]
          ELSE [cache_dir EXCEPT !.inodes[cache_dir.tmp] = <<>>,
                                 !.fd[s] = cache_dir.tmp,
                                 !.pc[s] = "writing"]
    /\ UNCHANGED <<unitVars, stateVars, runVars, descriptors, cache, registry>>

\* One write() of the text; the file is closed after the last one.
WriteChunk(s) ==
    /\ spec_kind = "save_cache"
    /\ cache_dir.pc[s] = "writing"
    /\ LET k == cache_dir.offset[s]
       IN  cache_dir' =
             [cache_dir EXCEPT !.inodes[cache_dir.fd[s]] = WriteAt(@, k, Payload(s)[k + 1]),
                               !.offset[s] = k + 1,
                               !.pc[s] = IF k + 1 = MaxChunks THEN "written" ELSE "writing"]
    /\ UNCHANGED <<unitVars, stateVars, runVars, descriptors, cache, registry>>

\* tmp.replace(path): the file named tmp gets the cache path's name; when the
\* other run has renamed it away, FileNotFoundError ends up in `except
\* Exception: return`.
ReplacePath(s) ==
    /\ spec_kind = "save_cache"
    /\ cache_dir.pc[s] = "written"
    /\ cache_dir' =
          IF cache_dir.tmp = 0 THEN [cache_dir EXCEPT !.pc[s] = "gave up"]
          ELSE [cache_dir EXCEPT !.path = cache_dir.tmp, !.tmp = 0, !.pc[s] = "replaced"]
    /\ UNCHANGED <<unitVars, stateVars, runVars, descriptors, cache, registry>>

NextSaveCache == \E s \in Savers : OpenTmp(s) \/ WriteChunk(s) \/ ReplacePath(s)

SpecSaveCache == InitSaveCache /\ [][NextSaveCache]_vars

(***************************************************************************)
(* C23: on a tree of unchanged descriptors, every discover_skills call     *)
(* with the cache switched on (the first on a cold cache, the later ones   *)
(* served from it) returns the skill metadata an uncached call returns.    *)
(***************************************************************************)
\* What a scan without cache appends for the scanned descriptors.
UncachedSkills == {SkillEntry(f, parse_skill_metadata(f, descriptors).value) : f \in Scanned}

\* The dicts of a returned list.
Returned_skills == {res.value[k] : k \in 1..Len(res.value)}

C23_CachedEqualsUncached ==
    (spec_kind = "discovery" /\ inp.entry = "discover_skills" /\ inp.cache_enabled
        /\ res.kind = "return") =>
        Returned_skills = UncachedSkills

(***************************************************************************)
(* C24: whatever the cache file holds (unreadable, not JSON, another       *)
(* version, another directory list, entries of the wrong shape, an entry   *)
(* whose stat fields match but whose metadata is incomplete or belongs to  *)
(* other content), a discover_skills call with the cache switched on does  *)
(* not fail because of it and returns what a scan without cache returns.   *)
(***************************************************************************)
\* A scan without cache fails: a descriptor does not parse, or two declare
\* one name.
UncachedRaises ==
    \/ \E f \in Scanned : parse_skill_metadata(f, descriptors).kind = "raise"
    \/ \E f, g \in Scanned : f # g /\ descriptors[f].name = descriptors[g].name

C24_CacheContentNeverMatters ==
    (spec_kind = "discovery" /\ inp.cache_enabled /\ res.kind # "none") =>
        /\ res.kind = "raise" <=> UncachedRaises
        /\ res.kind = "return" => Returned_skills = UncachedSkills

(***************************************************************************)
(* C25: while two discovery runs save to the same cache path, whatever is  *)
(* at the cache path is a complete document: the older one or the whole    *)
(* payload of one run, never a truncated or mixed file.                    *)
(***************************************************************************)
AtCachePath == cache_dir.inodes[cache_dir.path]

C25_CacheFileNeverPartial ==
    (spec_kind = "save_cache" /\ cache_dir.path # 0) =>
        AtCachePath \in {OldDocument} \cup {Payload(s) : s \in Savers}

(***************************************************************************)
(* C26: immediately after Agent.reset() the agent's state holds no message *)
(* of the earlier conversation and list_skills() still returns the skills  *)
(* that were discovered before the reset.                                  *)
(***************************************************************************)
C26_ResetKeepsSkills ==
    (spec_kind = "flat" /\ res.kind = "reset" /\ pc = "idle") =>
        /\ messages = <<>>
        /\ list_skills(St) = res.value

C28_AbortedToolStepCommitsNothing ==
    [][ (AtToolNode /\ outcome' \notin {"running", "end"}) =>
            /\ messages' = messages
            /\ active_skills' = active_skills
            /\ loaded_skills' = loaded_skills
            /\ skill_loaders' = skill_loaders ]_vars

\* Reached: a batch whose first call loads skill-b and whose second call
\* leaves the skill directory has failed, and skill-b is not active.
C28_Witness ==
    /\ spec_kind \in {"flat", "supervisor"}
    /\ outcome = "SecurityError"
    /\ Len(PendingCalls) = 2
    /\ PendingCalls[1].name = "load_skill"
    /\ PendingCalls[1].skill_name = "skill-b"
    /\ "skill-b" \in Names(skills_metadata)
    /\ EscapesSkill(PendingCalls[2])
    /\ "skill-b" \notin ActiveSet
    /\ "skill-b" \notin DOMAIN skill_loaders

(***************************************************************************)
(* C29: the tools bound to a worker are exactly the skill's script tools   *)
(* when it has a scripts directory, every requested generic tool that the  *)
(* registry knows (other requested names are ignored), and load_skill and  *)
(* read_skill_resource whatever the descriptor says.                       *)
(***************************************************************************)
BoundNames == {res.value[k] : k \in 1..Len(res.value)}

RequestedNames == {inp.skill_metadata.tools[k] : k \in 1..Len(inp.skill_metadata.tools)}

C29_WorkerToolSet ==
    (spec_kind = "worker_tools" /\ res.kind = "return") =>
        /\ \A f \in inp.scripts :
              ScriptToolName(inp.skill_metadata.name, f) \in BoundNames
                  <=> inp.skill_metadata.has_scripts
        /\ \A t \in STANDARD_TOOLS \cup RequestedNames :
              t \in BoundNames <=> (t \in STANDARD_TOOLS /\ t \in RequestedNames)
        /\ {"load_skill", "read_skill_resource"} \subseteq BoundNames
        /\ Cardinality(BoundNames) =
              (IF inp.skill_metadata.has_scripts THEN Cardinality(inp.scripts) ELSE 0)
                  + Cardinality(STANDARD_TOOLS \cap RequestedNames) + 2

\* Reached: a skill with two scripts that requests file_read and an unknown
\* tool got its script tools, file_read and the two core tools.
C29_Witness ==
    /\ spec_kind = "worker_tools"
    /\ res.kind = "return"
    /\ inp.skill_metadata.has_scripts
    /\ inp.skill_metadata.name = "skill-a"
    /\ Cardinality(inp.scripts) = 2
    /\ inp.skill_metadata.tools = <<"teleport", "file_read">>
    /\ res.value = <<"skill_a_build_sh", "skill_a_run_py", "file_read", "load_skill",
                     "read_skill_resource">>

(***************************************************************************)
(* C30: when the tool node of worker w has run, the next node is w's own   *)
(* generation node: control never goes from a tool node to the supervisor, *)
(* to END or to another worker.                                            *)
(***************************************************************************)
C30_ToolsReturnToOwnWorker ==
    [][ \A i \in 1..Len(catalog) :
          (spec_kind = "supervisor" /\ AtWorkerToolNode(i) /\ outcome' \in {"running", "end"})
              => (pc' = catalog[i].name /\ outcome' = "running") ]_vars

\* Reached: skill-b's worker is about to generate again with the results
\* of its tool calls as the newest messages.
C30_Witness ==
    /\ spec_kind = "supervisor"
    /\ outcome = "running"
    /\ pc = "skill-b"
    /\ messages # <<>>
    /\ Last(messages).type = "tool"
    /\ calls # <<>>
    /\ Last(calls).node = "skill-b"

(***************************************************************************)
(* C31: a tool-execution step that completes for an AI message with n tool *)
(* calls appends exactly n ToolMessages, in the order of the calls, the    *)
(* i-th carrying the id and the tool name of the i-th call.                *)
(***************************************************************************)
C31_OneToolMessagePerCall ==
    [][ (AtToolNode /\ outcome' = "running") =>
            /\ Len(messages') = Len(messages) + Len(PendingCalls)
            /\ SubSeq(messages', 1, Len(messages)) = messages
            /\ \A k \in 1..Len(PendingCalls) :
                  LET answer == messages'[Len(messages) + k] IN
                  /\ answer.type = "tool"
                  /\ answer.tool_call_id = PendingCalls[k].id
                  /\ answer.name = PendingCalls[k].name ]_vars

\* Reached: a batch of a load_skill call and a call of an unbound tool has
\* been answered by two ToolMessages in that order.
C31_Witness ==
    /\ spec_kind \in {"flat", "supervisor"}
    /\ outcome = "running"
    /\ Len(messages) >= 3
    /\ LET n == Len(messages) IN
          /\ messages[n - 2].type = "ai"
          /\ Len(messages[n - 2].tool_calls) = 2
          /\ messages[n - 1].type = "tool"
          /\ messages[n - 1].name = "load_skill"
          /\ messages[n - 1].tool_call_id = messages[n - 2].tool_calls[1].id
          /\ messages[n].type = "tool"
          /\ messages[n].name = "file_read"
          /\ messages[n].content = "Tool not found"
          /\ messages[n].tool_call_id = messages[n - 2].tool_calls[2].id

(***************************************************************************)
(* C32: load_skill for a name of the catalog puts the name into            *)
(* active_skills and loaded_skills and maps it to its catalog descriptor   *)
(* in skill_loaders; for a name the catalog lacks, or for no name, it      *)
(* answers with an error ToolMessage and changes none of the three.        *)
(***************************************************************************)
InList(list, x) == \E k \in 1..Len(list) : list[k] = x

C32_LoadSkillOutcome ==
    (spec_kind = "load_skill" /\ res.kind = "return") =>
        LET acc == res.value
            present == inp.skill_name \in Names(inp.skills_metadata)
        IN  /\ acc.raised = None
            /\ Len(acc.messages) = 1
            /\ acc.messages[1].tool_call_id = "call-1"
            /\ present =>
                  /\ InList(acc.active_skills, inp.skill_name)
                  /\ InList(acc.loaded_skills, inp.skill_name)
                  /\ inp.skill_name \in DOMAIN acc.skill_loaders
                  /\ acc.skill_loaders[inp.skill_name] \in
                        {inp.skills_metadata[k] : k \in 1..Len(inp.skills_metadata)}
                  /\ acc.skill_loaders[inp.skill_name].name = inp.skill_name
                  /\ acc.messages[1].content = "Loaded skill"
            /\ ~present =>
                  /\ acc.messages[1].content \in
                        {"Error: missing skill_name", "Error: unknown skill"}
                  /\ acc.active_skills = inp.active_skills
                  /\ acc.loaded_skills = inp.loaded_skills
                  /\ acc.skill_loaders = inp.skill_loaders

\* Reached: skill-b was loaded over a stale mapping, and an unknown name
\* was refused.
C32_Witness ==
    /\ spec_kind = "load_skill"
    /\ res.kind = "return"
    /\ inp.skill_name = "skill-b"
    /\ inp.skills_metadata = <<MetaA, MetaB>>
    /\ inp.active_skills = <<"skill-a">>
    /\ inp.skill_loaders # <<>>
    /\ res.value.active_skills = <<"skill-a", "skill-b">>
    /\ res.value.skill_loaders["skill-b"] = MetaB

(***************************************************************************)
(* C33: a sandboxed read decides containment first and existence second: a *)
(* path that resolves outside the skill directory is a sandbox violation   *)
(* whether or not its target exists, and the not-found outcome occurs only *)
(* for a path that resolves inside and is missing or no regular file.      *)
(***************************************************************************)
C33_ContainmentBeforeExistence ==
    (spec_kind = "sandbox" /\ res.kind # "none") =>
        /\ ~RelativeTo(SandboxTarget, SandboxRoot) => res = Raised("SecurityError")
        /\ res = Raised("FileNotFoundError") <=>
              (RelativeTo(SandboxTarget, SandboxRoot) /\ SandboxTarget \notin StaticFiles)

\* Reached: a path leaving the skill directory towards a file that does
\* not exist was refused as a violation.
C33_Witness ==
    /\ spec_kind = "sandbox"
    /\ inp.skill_name = "skill-a"
    /\ inp.file_path = Path(FALSE, <<"..", "missing.txt">>)
    /\ SandboxTarget \notin StaticFiles
    /\ res = Raised("SecurityError")

(***************************************************************************)
(* C34: with the cache switched on, discover_skills takes a descriptor's   *)
(* metadata from the cache only when the cache was written for the         *)
(* requested directory list and the entry's stored stat equals the file's  *)
(* current stat; any other scanned file is parsed, so what is returned for *)
(* it is its current header, and a file that is no longer on disk is not   *)
(* in the result although the cache has an entry for it.                   *)
(***************************************************************************)
\* The cache file may serve descriptor f.
Reusable(f) ==
    /\ cache.readable
    /\ cache.skills_dirs = inp.skills_dirs
    /\ f \in DOMAIN cache.entries
    /\ cache.entries[f].mtime_ns = descriptors[f].mtime_ns

C34_CacheReuseOnlyOnMatch ==
    [][ (spec_kind = "discovery" /\ inp.cache_enabled /\ res'.kind = "return") =>
            \A k \in 1..Len(res'.value) :
                LET f == res'.value[k].path IN
                /\ f \in Scanned
                /\ ~Reusable(f) =>
                      /\ parse_skill_metadata(f, descriptors).kind = "return"
                      /\ res'.value[k] =
                            SkillEntry(f, parse_skill_metadata(f, descriptors).value) ]_vars

\* Reached: a call on a cache written for the same directories returned
\* skill-a alone; the cache keeps a stat-matching entry, also named skill-a,
\* for a descriptor that is no longer on disk.
C34_Witness ==
    /\ spec_kind = "discovery"
    /\ inp.cache_enabled
    /\ inp.skills_dirs = << <<"skills">> >>
    /\ res.kind = "return"
    /\ DOMAIN descriptors = { <<"skills", "skill-a", "SKILL.md">> }
    /\ Len(res.value) = 1
    /\ res.value[1].name = "skill-a"
    /\ res.value[1].path = <<"skills", "skill-a", "SKILL.md">>
    /\ cache.skills_dirs = inp.skills_dirs
    /\ <<"skills", "group", "skill-b", "SKILL.md">> \in DOMAIN cache.entries
    /\ cache.entries[<<"skills", "group", "skill-b", "SKILL.md">>] =
          CacheEntry(0, Metadata(TRUE, "skill-a", "about skill-a", None))

(***************************************************************************)
(* C35: in the flat graph a skill that keyword matching made active but    *)
(* that load_skill has not loaded in the current turn is not disclosed at  *)
(* full detail: its instruction body is not in the system prompt, and its  *)
(* script tools are neither bound at generation nor dispatched by the tool *)
(* node; a skill is loaded only by a load_skill call of the current turn,  *)
(* and then its body is in the prompt and its script tools are bound and   *)
(* dispatched.                                                             *)
(***************************************************************************)
\* The script tools of catalog skill i.
ScriptToolsOfSkill(i) ==
    IF skills_metadata[i].has_scripts
    THEN {ScriptToolName(skills_metadata[i].name, f) :
             f \in list_skill_scripts(skills_metadata[i].skill_dir, files)}
    ELSE {}

\* The current turn holds an AI message asking to load the skill.
LoadRequestedThisTurn(name) ==
    \E k \in 1..Len(messages) :
        /\ messages[k].type = "ai"
        /\ \A j \in k..Len(messages) : messages[j].type # "human"
        /\ \E c \in 1..Len(messages[k].tool_calls) :
              /\ messages[k].tool_calls[c].name = "load_skill"
              /\ messages[k].tool_calls[c].skill_name = name

C35_FullDetailOnlyAfterLoad ==
    /\ []((spec_kind = "flat" /\ outcome = "running" /\ pc = "generate") =>
            \A i \in 1..Len(skills_metadata) :
                LET name == skills_metadata[i].name
                    body == Instructions(skills_metadata[i].skill_dir)
                IN  /\ name \in LoadedSet => LoadRequestedThisTurn(name)
                    /\ HasSeg(build_system_prompt(St), "instructions", body)
                          <=> name \in LoadedSet
                    /\ \A t \in ScriptToolsOfSkill(i) :
                          t \in generation_tools(St, files) <=> name \in LoadedSet)
    /\ [][ (spec_kind = "flat" /\ AtToolNode /\ outcome' = "running") =>
              \A i \in 1..Len(skills_metadata), k \in 1..Len(PendingCalls) :
                  PendingCalls[k].name \in ScriptToolsOfSkill(i) =>
                      (messages'[Len(messages) + k].content = "Tool not found"
                          <=> skills_metadata[i].name \notin LoadedSet) ]_vars

\* Reached: skill-b, made active by the selection step, was loaded by
\* load_skill and its script tool has then been dispatched.
C35_Witness ==
    /\ spec_kind = "flat"
    /\ outcome = "running"
    /\ pc = "generate"
    /\ active_skills = <<"skill-a", "skill-b">>
    /\ loaded_skills = <<"skill-b">>
    /\ "skill_b_run_py" \in generation_tools(St, files)
    /\ Last(messages).type = "tool"
    /\ Last(messages).name = "skill_b_run_py"
    /\ Last(messages).content = "result of skill_b_run_py"

(***************************************************************************)
(* C36: in every run of a graph built by create_supervisor_graph, also of  *)
(* one built from a pre-supplied skills_metadata list, each decision of    *)
(* the supervisor node is FINISH or the name of a worker node of the       *)
(* compiled graph, and the routing after it never fails on a missing node. *)
(***************************************************************************)
C36_RoutedWorkerHasNode ==
    spec_kind = "supervisor"
    => /\ \A k \in 1..Len(calls) :
             calls[k].node = "supervisor"
             => calls[k].decision \in Names(catalog) \cup {"FINISH"}
       /\ outcome # "KeyError"

(***************************************************************************)
(* C37: active_skills and loaded_skills never hold a name twice, and a     *)
(* step other than discovery only appends to them: activating a worker     *)
(* that is active, selecting skills again and loading a loaded skill (also *)
(* twice in one batch of tool calls) add no second copy.                   *)
(***************************************************************************)
NoDuplicates(list) == \A i, j \in 1..Len(list) : list[i] = list[j] => i = j

C37_NoDuplicateSkills ==
    /\ [](NoDuplicates(active_skills) /\ NoDuplicates(loaded_skills))
    /\ [][ (pc # "discover_skills" /\ outcome' \in {"running", "end"})
            => /\ IsPrefix(active_skills, active_skills')
               /\ IsPrefix(loaded_skills, loaded_skills') ]_vars

\* Reached: one batch loaded skill-b twice, and the lists hold it once.
C37_Witness ==
    /\ Len(messages) >= 2
    /\ \A k \in {Len(messages) - 1, Len(messages)} :
          /\ messages[k].type = "tool"
          /\ messages[k].name = "load_skill"
          /\ messages[k].content = "Loaded skill"
    /\ Cardinality({k \in 1..Len(loaded_skills) : loaded_skills[k] = "skill-b"}) = 1
    /\ Cardinality({k \in 1..Len(active_skills) : active_skills[k] = "skill-b"}) = 1

(***************************************************************************)
(* C38: a step of the supervisor node leaves messages, skills_metadata,    *)
(* active_skills, loaded_skills and skill_loaders as they were, and the    *)
(* conversation never holds the routing instruction or a system message    *)
(* the supervisor built for the model.                                     *)
(***************************************************************************)
C38_SupervisorFrame ==
    /\ [](spec_kind = "supervisor"
            => \A k \in 1..Len(messages) :
                  messages[k] # RoutingInstruction /\ messages[k].type # "system")
    /\ [][ (spec_kind = "supervisor" /\ pc = "supervisor" /\ outcome = "running")
            => UNCHANGED <<messages, skills_metadata, active_skills, loaded_skills,
                           skill_loaders>> ]_vars

\* Reached: the supervisor chose a worker on a list ending in the routing
\* instruction, and the conversation is the list without it.
C38_Witness ==
    /\ spec_kind = "supervisor"
    /\ outcome = "running"
    /\ calls # <<>>
    /\ calls[Len(calls)].node = "supervisor"
    /\ next \in Names(catalog)
    /\ pc = next
    /\ messages # <<>>
    /\ calls[Len(calls)].messages = messages \o <<RoutingInstruction>>

(***************************************************************************)
(* C39: in every message list a supervisor or worker invocation hands to   *)
(* the model, in any turn of the thread, each AI message with tool calls   *)
(* is followed at once by one ToolMessage per call, in the calls' order.   *)
(***************************************************************************)
Answered(msgs) ==
    \A i \in 1..Len(msgs) :
        (msgs[i].type = "ai" /\ msgs[i].tool_calls # <<>>)
        => /\ i + Len(msgs[i].tool_calls) <= Len(msgs)
           /\ \A j \in 1..Len(msgs[i].tool_calls) :
                 /\ msgs[i + j].type = "tool"
                 /\ msgs[i + j].tool_call_id = msgs[i].tool_calls[j].id

C39_NoUnansweredToolCall ==
    spec_kind = "supervisor" => \A k \in 1..Len(calls) : Answered(calls[k].messages)

====
